---------------------------- MODULE Spec2Model ----------------------------
(***************************************************************************)
(* A model of the LocalStack plugin's hot-reload watcher                   *)
(* (src/src/hot-reload.ts), of the helpers it calls (utils, runtime-config)*)
(* of the CLI's readiness probe and function registration (cli.ts,         *)
(* src/unnamed/part_005) and of the plugin's handler, port and cleanup     *)
(* (src/src/runtime-config.ts).                                            *)
(*                                                                         *)
(* Strings are sequences of one-character strings, so that the string      *)
(* operations of the code (regular expressions, split, extname, join) are  *)
(* computed and not assumed.                                               *)
(***************************************************************************)
EXTENDS Integers, Sequences, FiniteSets, TLC

VARIABLES
  env,           \* process.env: name -> value
  config,        \* the LocalStackConfig handed to the HotReloadWatcher
  isWatching,    \* HotReloadWatcher.isWatching
  watchers,      \* HotReloadWatcher.watchers: localPath -> native handle
  lastModified,  \* HotReloadWatcher.lastModified: localPath -> ms
  handles,       \* every native watch fs.watch has returned, in order
  pending,       \* handles whose callback for the current change is due
  curFile,       \* the file name the current change reports (or Null)
  now,           \* Date.now()
  ticks,         \* how often the clock has advanced
  emitted,       \* the events handed to EventBus.emitEvent, in order
  nChanges,      \* number of filesystem changes reported so far
  lastChange,    \* the last change reported, as it was when reported
  calls,         \* number of startWatching / stopWatching calls so far
  lastOp,        \* the last step taken and its outcome
  probe,         \* one waitForReady call of LocalStackCLI
  call,          \* one call of a helper: its name, argument and result
  plugin         \* the LocalStackPlugin: its configuration, the handler's
                 \* position and the calls it has made

watcherVars ==
  <<env, config, isWatching, watchers, lastModified, handles, pending,
    curFile, now, ticks, emitted, nChanges, lastChange, calls, lastOp>>

vars == <<env, config, isWatching, watchers, lastModified, handles, pending,
          curFile, now, ticks, emitted, nChanges, lastChange, calls, lastOp,
          probe, call, plugin>>

-----------------------------------------------------------------------------
(* Bounds of the model. *)

MaxCalls == 3
MaxChanges == 2
MaxTicks == 2
MaxAttempts == 3
MaxTokens == 3
MaxItems == 2

-----------------------------------------------------------------------------
(* An optional value of JavaScript (a field that may be undefined, an
   argument that may be null) is a sequence: empty when the value is
   absent, of the one value otherwise. *)

Null == <<>>
Some(x) == <<x>>

(* An empty Map. *)
EmptyMap == [x \in {} |-> 0]

(* Map.set(k, v) *)
MapSet(m, k, v) == [x \in (DOMAIN m) \cup {k} |-> IF x = k THEN v ELSE m[x]]

-----------------------------------------------------------------------------
(* Characters. *)

Lowers == {"a", "b", "c", "d", "e", "f", "g", "h", "i", "j", "k", "l",
           "m", "n", "o", "p", "q", "r", "s", "t", "u", "v", "w", "x",
           "y", "z"}
Uppers == {"A", "B", "C", "D", "E", "F", "G", "H", "I", "J", "K", "L",
           "M", "N", "O", "P", "Q", "R", "S", "T", "U", "V", "W", "X",
           "Y", "Z"}
Digits == {"0", "1", "2", "3", "4", "5", "6", "7", "8", "9"}

(* [A-Za-z_] *)
IsNameStart(c) == c \in Lowers \cup Uppers \cup {"_"}

(* [A-Za-z0-9_] *)
IsNameChar(c) == IsNameStart(c) \/ c \in Digits

(* String.prototype.toLowerCase, one character *)
LowerChar(c) ==
  CASE c = "A" -> "a" [] c = "B" -> "b" [] c = "C" -> "c" [] c = "D" -> "d"
    [] c = "E" -> "e" [] c = "F" -> "f" [] c = "G" -> "g" [] c = "H" -> "h"
    [] c = "I" -> "i" [] c = "J" -> "j" [] c = "K" -> "k" [] c = "L" -> "l"
    [] c = "M" -> "m" [] c = "N" -> "n" [] c = "O" -> "o" [] c = "P" -> "p"
    [] c = "Q" -> "q" [] c = "R" -> "r" [] c = "S" -> "s" [] c = "T" -> "t"
    [] c = "U" -> "u" [] c = "V" -> "v" [] c = "W" -> "w" [] c = "X" -> "x"
    [] c = "Y" -> "y" [] c = "Z" -> "z"
    [] OTHER -> c

(* String.prototype.toLowerCase *)
ToLowerCase(s) == [i \in 1..Len(s) |-> LowerChar(s[i])]

-----------------------------------------------------------------------------
(* Node's path module (POSIX), as far as the plugin uses it. *)

(* String.prototype.split, on one separator character *)
RECURSIVE SplitFrom(_, _, _, _)
SplitFrom(s, sep, i, cur) ==
  IF i > Len(s) THEN <<cur>>
  ELSE IF s[i] = sep THEN <<cur>> \o SplitFrom(s, sep, i + 1, <<>>)
  ELSE SplitFrom(s, sep, i + 1, Append(cur, s[i]))

Split(s, sep) == SplitFrom(s, sep, 1, <<>>)

(* Array.prototype.join, on one separator character *)
RECURSIVE JoinWith(_, _)
JoinWith(segs, sep) ==
  IF Len(segs) = 0 THEN <<>>
  ELSE IF Len(segs) = 1 THEN segs[1]
  ELSE segs[1] \o <<sep>> \o JoinWith(Tail(segs), sep)

(* path.isAbsolute *)
IsAbsolute(p) == Len(p) > 0 /\ p[1] = "/"

(* normalizeString of path.js: drops "" and "." segments and resolves ".." *)
RECURSIVE NormalizeSegments(_, _, _)
NormalizeSegments(segs, acc, allowAboveRoot) ==
  IF Len(segs) = 0 THEN acc
  ELSE LET seg == Head(segs)
           rest == Tail(segs)
       IN IF seg = <<>> \/ seg = <<".">>
            THEN NormalizeSegments(rest, acc, allowAboveRoot)
          ELSE IF seg = <<".", ".">>
            THEN IF Len(acc) > 0 /\ acc[Len(acc)] # <<".", ".">>
                   THEN NormalizeSegments(rest, SubSeq(acc, 1, Len(acc) - 1),
                                          allowAboveRoot)
                 ELSE IF allowAboveRoot
                   THEN NormalizeSegments(rest, Append(acc, seg), allowAboveRoot)
                 ELSE NormalizeSegments(rest, acc, allowAboveRoot)
          ELSE NormalizeSegments(rest, Append(acc, seg), allowAboveRoot)

(* path.normalize *)
PathNormalize(p) ==
  IF Len(p) = 0 THEN <<".">>
  ELSE LET abs == IsAbsolute(p)
           trailing == p[Len(p)] = "/"
           body == JoinWith(NormalizeSegments(Split(p, "/"), <<>>, ~abs), "/")
           body1 == IF Len(body) = 0 /\ ~abs THEN <<".">> ELSE body
           body2 == IF Len(body1) > 0 /\ trailing THEN body1 \o <<"/">> ELSE body1
       IN IF abs THEN <<"/">> \o body2 ELSE body2

(* path.join(a, b) *)
PathJoin(a, b) ==
  IF Len(a) = 0 /\ Len(b) = 0 THEN <<".">>
  ELSE IF Len(a) = 0 THEN PathNormalize(b)
  ELSE IF Len(b) = 0 THEN PathNormalize(a)
  ELSE PathNormalize(a \o <<"/">> \o b)

(* path.resolve(root, p), root an absolute path *)
PathResolve(root, p) ==
  LET full == IF IsAbsolute(p) THEN p
              ELSE IF Len(p) = 0 THEN root
              ELSE root \o <<"/">> \o p
  IN <<"/">> \o JoinWith(NormalizeSegments(Split(full, "/"), <<>>, FALSE), "/")

(* the index of the last occurrence of c in s, 0 when there is none *)
RECURSIVE LastIndexOf(_, _, _)
LastIndexOf(s, c, i) ==
  IF i = 0 THEN 0 ELSE IF s[i] = c THEN i ELSE LastIndexOf(s, c, i - 1)

(* path.basename, of a path that does not end in a separator *)
PathBasename(p) == SubSeq(p, LastIndexOf(p, "/", Len(p)) + 1, Len(p))

(* path.extname: from the last "." of the base name, "" when the base name
   has none, starts with its only ".", or is ".." *)
PathExtname(p) ==
  LET base == PathBasename(p)
      dot == LastIndexOf(base, ".", Len(base))
  IN IF dot = 0 \/ dot = 1 \/ base = <<".", ".">> THEN <<>>
     ELSE SubSeq(base, dot, Len(base))

-----------------------------------------------------------------------------
(* utils.ts: expandEnvironmentVariables *)

(* the index of the first "}" of s at or after i, 0 when there is none *)
RECURSIVE FirstClose(_, _)
FirstClose(s, i) ==
  IF i > Len(s) THEN 0 ELSE IF s[i] = "}" THEN i ELSE FirstClose(s, i + 1)

(* the replacer both passes share: the variable's value when process.env
   defines it (the empty string included), the matched text otherwise *)
ReplaceMatch(e, varName, match) ==
  IF varName \in DOMAIN e THEN e[varName] ELSE match

(* the first replace, of "${" name "}" with a non-empty name free of "}",
   scanning from index i; the text a replacement inserts is not scanned
   again *)
RECURSIVE ExpandBraced(_, _, _)
ExpandBraced(e, s, i) ==
  IF i > Len(s) THEN <<>>
  ELSE LET close == IF i + 2 <= Len(s) /\ s[i] = "$" /\ s[i + 1] = "{"
                      THEN FirstClose(s, i + 2) ELSE 0
       IN IF close > i + 2
            THEN ReplaceMatch(e, SubSeq(s, i + 2, close - 1), SubSeq(s, i, close))
                 \o ExpandBraced(e, s, close + 1)
          ELSE <<s[i]>> \o ExpandBraced(e, s, i + 1)

(* the index of the last character of the longest run of name characters
   that starts at i (i - 1 when s[i] is no such character) *)
RECURSIVE NameEnd(_, _)
NameEnd(s, i) ==
  IF i <= Len(s) /\ IsNameChar(s[i]) THEN NameEnd(s, i + 1) ELSE i - 1

(* where the second pattern ("$", a name start, name characters, not
   followed by "{") matches at index i: the index of the last character of
   the name, 0 for no match.  The name is taken greedily; when a "{"
   follows it the matcher backtracks by one character, which then is
   followed by a name character and not by "{" *)
BareMatchEnd(s, i) ==
  IF ~(i + 1 <= Len(s) /\ s[i] = "$" /\ IsNameStart(s[i + 1])) THEN 0
  ELSE LET last == NameEnd(s, i + 2)
       IN IF last + 1 <= Len(s) /\ s[last + 1] = "{"
            THEN IF last > i + 1 THEN last - 1 ELSE 0
          ELSE last

(* the second replace, of "$" name, scanning from index i *)
RECURSIVE ExpandBare(_, _, _)
ExpandBare(e, s, i) ==
  IF i > Len(s) THEN <<>>
  ELSE LET last == BareMatchEnd(s, i)
       IN IF last > 0
            THEN ReplaceMatch(e, SubSeq(s, i + 1, last), SubSeq(s, i, last))
                 \o ExpandBare(e, s, last + 1)
          ELSE <<s[i]>> \o ExpandBare(e, s, i + 1)

(* expandEnvironmentVariables(value) under process.env = e, value a
   string: the empty string is falsy and returned as it is *)
expandEnvironmentVariables(e, value) ==
  IF value = <<>> THEN value
  ELSE ExpandBare(e, ExpandBraced(e, value, 1), 1)

(* The values expandEnvironmentVariablesInObject is given: a value of
   JavaScript with its type. *)
JsString(s) == [kind |-> "string", val |-> s]
JsNumber(n) == [kind |-> "number", val |-> n]
JsBoolean(b) == [kind |-> "boolean", val |-> b]
JsNull == [kind |-> "null", val |-> 0]
JsUndefined == [kind |-> "undefined", val |-> 0]
JsArray(items) == [kind |-> "array", val |-> items]
JsObject(entries) == [kind |-> "object", val |-> entries]

(* Variant of IsObject that takes no value for an object. *)
IsObject_Never(obj) == FALSE

(* typeof obj === 'object', for a value that is neither null nor an
   array *)
IsObject(obj) == obj.kind = "object"

(* expandEnvironmentVariablesInObject(obj) under process.env = e: null and
   undefined as they are, a string expanded, an array mapped item by item,
   an object rebuilt entry by entry under the same keys, anything else as
   it is *)
RECURSIVE expandEnvironmentVariablesInObject(_, _)
expandEnvironmentVariablesInObject(e, obj) ==
  IF obj.kind \in {"null", "undefined"} THEN obj
  ELSE IF obj.kind = "string"
    THEN JsString(expandEnvironmentVariables(e, obj.val))
  ELSE IF obj.kind = "array"
    THEN JsArray([i \in 1..Len(obj.val)
                   |-> expandEnvironmentVariablesInObject(e, obj.val[i])])
  ELSE IF IsObject(obj)
    THEN JsObject([key \in DOMAIN obj.val
                    |-> expandEnvironmentVariablesInObject(e, obj.val[key])])
  ELSE obj

-----------------------------------------------------------------------------
(* runtime-config.ts *)

(* the built-in table: runtime -> extensions *)
DEFAULT_RUNTIME_FILE_EXTENSIONS ==
  (<<"p", "y", "t", "h", "o", "n">>
     :> <<<<".", "p", "y">>>>) @@
  (<<"p", "y", "t", "h", "o", "n", "3">>
     :> <<<<".", "p", "y">>>>) @@
  (<<"p", "y", "t", "h", "o", "n", "3", ".", "8">>
     :> <<<<".", "p", "y">>>>) @@
  (<<"p", "y", "t", "h", "o", "n", "3", ".", "9">>
     :> <<<<".", "p", "y">>>>) @@
  (<<"p", "y", "t", "h", "o", "n", "3", ".", "1", "0">>
     :> <<<<".", "p", "y">>>>) @@
  (<<"p", "y", "t", "h", "o", "n", "3", ".", "1", "1">>
     :> <<<<".", "p", "y">>>>) @@
  (<<"p", "y", "t", "h", "o", "n", "3", ".", "1", "2">>
     :> <<<<".", "p", "y">>>>) @@
  (<<"n", "o", "d", "e", "j", "s">>
     :> <<<<".", "j", "s">>, <<".", "m", "j", "s">>, <<".", "c", "j", "s">>, <<".", "t", "s">>, <<".", "t", "s", "x">>, <<".", "j", "s", "x">>>>) @@
  (<<"n", "o", "d", "e", "j", "s", "1", "8", ".", "x">>
     :> <<<<".", "j", "s">>, <<".", "m", "j", "s">>, <<".", "c", "j", "s">>, <<".", "t", "s">>, <<".", "t", "s", "x">>, <<".", "j", "s", "x">>>>) @@
  (<<"n", "o", "d", "e", "j", "s", "2", "0", ".", "x">>
     :> <<<<".", "j", "s">>, <<".", "m", "j", "s">>, <<".", "c", "j", "s">>, <<".", "t", "s">>, <<".", "t", "s", "x">>, <<".", "j", "s", "x">>>>) @@
  (<<"n", "o", "d", "e", "j", "s", "2", "2", ".", "x">>
     :> <<<<".", "j", "s">>, <<".", "m", "j", "s">>, <<".", "c", "j", "s">>, <<".", "t", "s">>, <<".", "t", "s", "x">>, <<".", "j", "s", "x">>>>) @@
  (<<"j", "a", "v", "a">>
     :> <<<<".", "j", "a", "v", "a">>, <<".", "j", "a", "r">>, <<".", "c", "l", "a", "s", "s">>>>) @@
  (<<"j", "a", "v", "a", "8">>
     :> <<<<".", "j", "a", "v", "a">>, <<".", "j", "a", "r">>, <<".", "c", "l", "a", "s", "s">>>>) @@
  (<<"j", "a", "v", "a", "1", "1">>
     :> <<<<".", "j", "a", "v", "a">>, <<".", "j", "a", "r">>, <<".", "c", "l", "a", "s", "s">>>>) @@
  (<<"j", "a", "v", "a", "1", "7">>
     :> <<<<".", "j", "a", "v", "a">>, <<".", "j", "a", "r">>, <<".", "c", "l", "a", "s", "s">>>>) @@
  (<<"j", "a", "v", "a", "2", "1">>
     :> <<<<".", "j", "a", "v", "a">>, <<".", "j", "a", "r">>, <<".", "c", "l", "a", "s", "s">>>>) @@
  (<<"d", "o", "t", "n", "e", "t">>
     :> <<<<".", "c", "s">>, <<".", "f", "s">>, <<".", "v", "b">>, <<".", "d", "l", "l">>>>) @@
  (<<"d", "o", "t", "n", "e", "t", "6">>
     :> <<<<".", "c", "s">>, <<".", "f", "s">>, <<".", "v", "b">>, <<".", "d", "l", "l">>>>) @@
  (<<"d", "o", "t", "n", "e", "t", "8">>
     :> <<<<".", "c", "s">>, <<".", "f", "s">>, <<".", "v", "b">>, <<".", "d", "l", "l">>>>) @@
  (<<"d", "o", "t", "n", "e", "t", "c", "o", "r", "e", "3", ".", "1">>
     :> <<<<".", "c", "s">>, <<".", "f", "s">>, <<".", "v", "b">>, <<".", "d", "l", "l">>>>) @@
  (<<"r", "u", "b", "y">>
     :> <<<<".", "r", "b">>>>) @@
  (<<"r", "u", "b", "y", "3", ".", "2">>
     :> <<<<".", "r", "b">>>>) @@
  (<<"r", "u", "b", "y", "3", ".", "3">>
     :> <<<<".", "r", "b">>>>) @@
  (<<"g", "o">>
     :> <<<<".", "g", "o">>>>) @@
  (<<"g", "o", "1", ".", "x">>
     :> <<<<".", "g", "o">>>>) @@
  (<<"r", "u", "s", "t">>
     :> <<<<".", "r", "s">>>>) @@
  (<<"p", "o", "w", "e", "r", "s", "h", "e", "l", "l">>
     :> <<<<".", "p", "s", "1">>, <<".", "p", "s", "m", "1">>, <<".", "p", "s", "d", "1">>>>)

(* the extensions of a runtime no tier finds *)
DEFAULT_FILE_EXTENSIONS ==
  <<<<".", "p", "y">>,
    <<".", "j", "s">>,
    <<".", "m", "j", "s">>,
    <<".", "c", "j", "s">>,
    <<".", "t", "s">>,
    <<".", "j", "a", "v", "a">>,
    <<".", "c", "s">>,
    <<".", "g", "o">>,
    <<".", "r", "b">>,
    <<".", "r", "s">>>>

(* Variant of MergeMappings that puts the defaults on top of the custom
   entries. *)
MergeMappings_DefaultsOnTop(customMappings) ==
  IF customMappings = Null THEN DEFAULT_RUNTIME_FILE_EXTENSIONS
  ELSE LET custom == customMappings[1]
       IN [k \in (DOMAIN DEFAULT_RUNTIME_FILE_EXTENSIONS) \cup (DOMAIN custom)
             |-> IF k \in DOMAIN DEFAULT_RUNTIME_FILE_EXTENSIONS
                   THEN DEFAULT_RUNTIME_FILE_EXTENSIONS[k]
                 ELSE custom[k]]

(* { ...DEFAULT_RUNTIME_FILE_EXTENSIONS, ...customMappings }: the custom
   entries on top of the defaults; customMappings may be undefined *)
MergeMappings(customMappings) ==
  IF customMappings = Null THEN DEFAULT_RUNTIME_FILE_EXTENSIONS
  ELSE LET custom == customMappings[1]
       IN [k \in (DOMAIN DEFAULT_RUNTIME_FILE_EXTENSIONS) \cup (DOMAIN custom)
             |-> IF k \in DOMAIN custom THEN custom[k]
                 ELSE DEFAULT_RUNTIME_FILE_EXTENSIONS[k]]

(* Variant of StripTrailingDigits that strips nothing. *)
StripTrailingDigits_None(s) == s

(* runtimeBase.replace(/[0-9]+$/, ''): s without its trailing digits *)
RECURSIVE StripTrailingDigits(_)
StripTrailingDigits(s) ==
  IF Len(s) > 0 /\ s[Len(s)] \in Digits
    THEN StripTrailingDigits(SubSeq(s, 1, Len(s) - 1))
  ELSE s

(* getFileExtensionsForRuntime(runtime, customMappings): the exact entry,
   else the entry of the text before the first ".", else that of this text
   without its trailing digits, else the default list.  An entry counts
   when it is there: a list, even an empty one, is truthy *)
getFileExtensionsForRuntime(runtime, customMappings) ==
  LET runtimeMappings == MergeMappings(customMappings)
      runtimeBase == Split(runtime, ".")[1]
      runtimeFamily == StripTrailingDigits(runtimeBase)
  IN IF runtime \in DOMAIN runtimeMappings THEN runtimeMappings[runtime]
     ELSE IF runtimeBase # <<>> /\ runtimeBase \in DOMAIN runtimeMappings
       THEN runtimeMappings[runtimeBase]
     ELSE IF runtimeBase # <<>> /\ runtimeFamily # <<>>
             /\ runtimeFamily \in DOMAIN runtimeMappings
       THEN runtimeMappings[runtimeFamily]
     ELSE DEFAULT_FILE_EXTENSIONS

-----------------------------------------------------------------------------
(* hot-reload.ts: the world around the watcher. *)

DEFAULT_WATCH_INTERVAL_MS == 700

(* process.cwd() *)
ProjectRoot == <<"/", "r">>

(* process.env while the watcher runs: N, D and P are set, U is not *)
WatcherEnv ==
  (<<"N">> :> <<"B">>) @@
  (<<"D">> :> <<"/", "r", "/", "b">>) @@
  (<<"P">> :> <<"a">>)

(* The filesystem, as fs.existsSync, fs.statSync and fs.watch see it:
   /r/a and /r/b are directories, /r/f is a file, /r/w is a directory that
   fs.watch cannot watch (it throws), nothing else exists. *)
FsKind(path) ==
  CASE path = <<"/", "r", "/", "a">> -> "dir"
    [] path = <<"/", "r", "/", "b">> -> "dir"
    [] path = <<"/", "r", "/", "f">> -> "file"
    [] path = <<"/", "r", "/", "w">> -> "nowatch"
    [] OTHER -> "missing"

(* The entries hotReloading.lambdaPaths is drawn from (types.ts). *)
TargetA ==
  [functionName |-> <<"A">>, localPath |-> <<"/", "r", "/", "a">>,
   handler |-> <<"h">>,
   runtime |-> <<"p", "y", "t", "h", "o", "n", "3", ".", "8">>,
   fileExtensions |-> Null]
TargetB ==
  [functionName |-> <<"$", "N">>, localPath |-> <<".", "/", "$", "{", "P", "}">>,
   handler |-> <<"h", ".", "$", "N">>,
   runtime |-> <<"n", "o", "d", "e", "j", "s", "1", "8", ".", "x">>,
   fileExtensions |-> Some(<< <<".", "p", "y">>, <<".", "j", "s">> >>)]
TargetC ==
  [functionName |-> <<"C">>, localPath |-> <<"$", "{", "D", "}">>,
   handler |-> <<"h">>,
   runtime |-> <<"p", "y", "t", "h", "o", "n", "3", ".", "1", "3">>,
   fileExtensions |-> Null]
TargetMissing ==
  [functionName |-> <<"M">>, localPath |-> <<"/", "r", "/", "$", "{", "U", "}">>,
   handler |-> <<"h">>,
   runtime |-> <<"p", "y", "t", "h", "o", "n", "3", ".", "8">>,
   fileExtensions |-> Null]
TargetFile ==
  [functionName |-> <<"F">>, localPath |-> <<"f">>,
   handler |-> <<"h">>,
   runtime |-> <<"p", "y", "t", "h", "o", "n", "3", ".", "8">>,
   fileExtensions |-> Null]
TargetNoWatch ==
  [functionName |-> <<"W">>, localPath |-> <<"/", "r", "/", "w">>,
   handler |-> <<"h">>,
   runtime |-> <<"p", "y", "t", "h", "o", "n", "3", ".", "8">>,
   fileExtensions |-> Null]

(* The lists hotReloading.lambdaPaths is drawn from: none; one target; two
   functions on one directory (written as two different paths); two
   directories; only targets that are skipped; a
   skipped target before or between watched ones; a directory whose watch
   fails, after or before a watched one. *)
LambdaPathLists ==
  {<<>>,
   <<TargetA>>,
   <<TargetA, TargetB>>,
   <<TargetA, TargetC>>,
   <<TargetMissing, TargetFile>>,
   <<TargetMissing, TargetA>>,
   <<TargetC, TargetFile, TargetB>>,
   <<TargetA, TargetNoWatch>>,
   <<TargetNoWatch, TargetA>>}

(* The configurations a watcher is constructed with: hotReloading.enabled,
   hotReloading.watchInterval (unset or 3 ms), hotReloading.lambdaPaths
   and hotReloading.runtimeFileExtensions. *)
WatcherConfigs ==
  [enabled : BOOLEAN,
   watchInterval : {Null, Some(3)},
   lambdaPaths : LambdaPathLists,
   runtimeFileExtensions : {Null}]

(* The file names a change may report: null on platforms that give none,
   a Python file in upper case, a JavaScript file in a subdirectory. *)
FileNames ==
  {Null,
   Some(<<"x", ".", "P", "Y">>),
   Some(<<"s", "/", "y", ".", "j", "s">>)}

(* Date.now() when the watcher is constructed: a time of day is far above
   every interval. *)
StartTime == 2 * DEFAULT_WATCH_INTERVAL_MS

-----------------------------------------------------------------------------
(* hot-reload.ts: HotReloadWatcher *)

(* Variant of HasExplicitExtensions that never sees the explicit list. *)
HasExplicitExtensions_Never(lambdaPath) == FALSE

(* lambdaPath.fileExtensions is truthy: a list is configured, be it empty *)
HasExplicitExtensions(lambdaPath) == lambdaPath.fileExtensions # Null

(* the target startWatching hands to watchLambdaPath for one entry of
   lambdaPaths: variables expanded in localPath, functionName and handler,
   a relative localPath resolved against the project root, the explicit
   extension list or else the runtime's *)
ResolvedConfig(e, cfg, lambdaPath) ==
  LET expandedPath == expandEnvironmentVariables(e, lambdaPath.localPath)
      fileExtensions ==
        IF HasExplicitExtensions(lambdaPath) THEN lambdaPath.fileExtensions[1]
        ELSE getFileExtensionsForRuntime(lambdaPath.runtime,
                                         cfg.runtimeFileExtensions)
  IN [functionName |-> expandEnvironmentVariables(e, lambdaPath.functionName),
      localPath |-> IF IsAbsolute(expandedPath) THEN expandedPath
                    ELSE PathResolve(ProjectRoot, expandedPath),
      handler |-> expandEnvironmentVariables(e, lambdaPath.handler),
      runtime |-> lambdaPath.runtime,
      fileExtensions |-> fileExtensions]

(* the state startWatching works on *)
WatcherState ==
  [watchers |-> watchers, lastModified |-> lastModified, handles |-> handles,
   raised |-> FALSE]

(* the native watch fs.watch returns: open, and holding what the callback
   closes over *)
NewHandle(lambdaConfig) ==
  [path |-> lambdaConfig.localPath,
   functionName |-> lambdaConfig.functionName,
   handler |-> lambdaConfig.handler,
   runtime |-> lambdaConfig.runtime,
   fileExtensions |-> lambdaConfig.fileExtensions,
   open |-> TRUE]

(* fs.existsSync(localPath) *)
ExistsSync(localPath) == FsKind(localPath) # "missing"

(* Variant of IsDirectory that takes every existing path for a directory. *)
IsDirectory_Always(localPath) == TRUE

(* fs.statSync(localPath).isDirectory(), of a path that exists *)
IsDirectory(localPath) == FsKind(localPath) # "file"

(* watchLambdaPath(lambdaConfig) at time t: a path that is missing or no
   directory is skipped; otherwise lastModified is set, fs.watch is called
   and its handle stored under the path.  fs.watch may throw. *)
WatchLambdaPath(st, lambdaConfig, t) ==
  LET localPath == lambdaConfig.localPath
      kind == FsKind(localPath)
  IN IF ~ExistsSync(localPath) THEN st
     ELSE IF ~IsDirectory(localPath) THEN st
     ELSE LET stamped == [st EXCEPT !.lastModified = MapSet(@, localPath, t)]
          IN IF kind = "nowatch" THEN [stamped EXCEPT !.raised = TRUE]
             ELSE [stamped EXCEPT
                     !.handles = Append(@, NewHandle(lambdaConfig)),
                     !.watchers = MapSet(@, localPath, Len(st.handles) + 1)]

(* the loop of startWatching over lambdaPaths from entry i on; an exception
   ends it *)
RECURSIVE WatchAll(_, _, _, _, _)
WatchAll(st, e, cfg, i, t) ==
  IF i > Len(cfg.lambdaPaths) \/ st.raised THEN st
  ELSE WatchAll(WatchLambdaPath(st, ResolvedConfig(e, cfg, cfg.lambdaPaths[i]), t),
                e, cfg, i + 1, t)

(* Variant of StartIsNoOp that forgets the isWatching test. *)
StartIsNoOp_IgnoresWatching == ~config.enabled

(* the first return of startWatching: hot reloading is not enabled, or the
   watcher is watching already *)
StartIsNoOp == ~config.enabled \/ isWatching

(* Variant of NoLambdaPaths that never returns early. *)
NoLambdaPaths_Never == FALSE

(* the second return of startWatching: no Lambda path is configured *)
NoLambdaPaths == Len(config.lambdaPaths) = 0

(* startWatching(), called when no callback is due: the callbacks of one
   change run back to back *)
StartWatching ==
  /\ calls < MaxCalls
  /\ pending = {}
  /\ calls' = calls + 1
  /\ IF StartIsNoOp
       THEN /\ lastOp' = [op |-> "startWatching", result |-> "noop"]
            /\ UNCHANGED <<isWatching, watchers, lastModified, handles>>
     ELSE IF NoLambdaPaths
       THEN /\ lastOp' = [op |-> "startWatching", result |-> "nopaths"]
            /\ UNCHANGED <<isWatching, watchers, lastModified, handles>>
     ELSE LET st == WatchAll(WatcherState, env, config, 1, now)
          IN /\ watchers' = st.watchers
             /\ lastModified' = st.lastModified
             /\ handles' = st.handles
             /\ isWatching' = (IF st.raised THEN isWatching ELSE TRUE)
             /\ lastOp' = [op |-> "startWatching",
                           result |-> IF st.raised THEN "raised" ELSE "started"]
  /\ UNCHANGED <<env, config, pending, curFile, now, ticks, emitted, nChanges,
                 lastChange, probe, call, plugin>>

(* the handles stopWatching closes: those the registry holds *)
Registered == {watchers[p] : p \in DOMAIN watchers}

(* Variant of StopIsNoOp that never returns early. *)
StopIsNoOp_Never == FALSE

(* the early return of stopWatching: the watcher is not watching *)
StopIsNoOp == ~isWatching

(* stopWatching(), called when no callback is due *)
StopWatching ==
  /\ calls < MaxCalls
  /\ pending = {}
  /\ calls' = calls + 1
  /\ IF StopIsNoOp
       THEN /\ lastOp' = [op |-> "stopWatching", result |-> "noop"]
            /\ UNCHANGED <<isWatching, watchers, lastModified, handles>>
     ELSE /\ handles' = [h \in DOMAIN handles |->
                           IF h \in Registered THEN [handles[h] EXCEPT !.open = FALSE]
                           ELSE handles[h]]
          /\ watchers' = EmptyMap
          /\ lastModified' = EmptyMap
          /\ isWatching' = FALSE
          /\ lastOp' = [op |-> "stopWatching", result |-> "stopped"]
  /\ UNCHANGED <<env, config, pending, curFile, now, ticks, emitted, nChanges,
                 lastChange, probe, call, plugin>>

(* hotReloading.watchInterval || DEFAULT_WATCH_INTERVAL_MS *)
Interval(cfg) ==
  IF cfg.watchInterval = Null \/ cfg.watchInterval[1] = 0
    THEN DEFAULT_WATCH_INTERVAL_MS
  ELSE cfg.watchInterval[1]

(* By how much the clock may advance in one step: one millisecond, or one
   millisecond less than the debounce interval. *)
TickSteps(cfg) == {1, Interval(cfg) - 1}

(* lastModified.get(localPath) || 0 *)
LastMod(lm, localPath) == IF localPath \in DOMAIN lm THEN lm[localPath] ELSE 0

(* Variant of CodeUpdated that puts the handler where the function name
   belongs and the function name where the handler belongs. *)
CodeUpdated_Swapped(h, changedFile, t) ==
  [functionName |-> h.handler, localPath |-> h.path,
   changedFile |-> changedFile, handler |-> h.functionName,
   runtime |-> h.runtime, timestamp |-> t]

(* the event handleFileChange emits *)
CodeUpdated(h, changedFile, t) ==
  [functionName |-> h.functionName, localPath |-> h.path,
   changedFile |-> changedFile, handler |-> h.handler, runtime |-> h.runtime,
   timestamp |-> t]

(* Variant of PassesDebounce that lets every change through. *)
PassesDebounce_Always(lm, cfg, localPath, t) == TRUE

(* Variant of PassesDebounce that also suppresses a change arriving exactly
   one interval after the last accepted one. *)
PassesDebounce_Strict(lm, cfg, localPath, t) ==
  t - LastMod(lm, localPath) > Interval(cfg)

(* whether handleFileChange, called at time t, lets the change through *)
PassesDebounce(lm, cfg, localPath, t) ==
  ~(t - LastMod(lm, localPath) < Interval(cfg))

(* Variant of Qualifies that lets every named file through, whatever its
   extension. *)
Qualifies_AnyExtension(h, filename) == filename # Null /\ filename[1] # <<>>

(* whether the watch callback of handle h hands the file name to
   handleFileChange: a name is there and its extension, in lower case, is
   one of the target's *)
Qualifies(h, filename) ==
  /\ filename # Null
  /\ filename[1] # <<>>
  /\ \E i \in 1..Len(h.fileExtensions) :
       h.fileExtensions[i] = ToLowerCase(PathExtname(filename[1]))

(* The filesystem reports a change under a watched directory: the callback
   of every open native watch on that directory becomes due.  The callbacks
   of one change are dispatched before the next change is read. *)
FsChange(localPath, filename) ==
  /\ nChanges < MaxChanges
  /\ nChanges' = nChanges + 1
  /\ pending = {}
  /\ \E h \in DOMAIN handles : handles[h].open /\ handles[h].path = localPath
  /\ pending' = {h \in DOMAIN handles :
                   handles[h].open /\ handles[h].path = localPath}
  /\ curFile' = filename
  /\ lastChange' =
       [path |-> localPath, at |-> now,
        fresh |-> PassesDebounce(lastModified, config, localPath, now),
        watching |-> isWatching, base |-> Len(emitted)]
  /\ UNCHANGED <<env, config, isWatching, watchers, lastModified, handles,
                 now, ticks, emitted, calls, lastOp, probe, call, plugin>>

(* Variant of AfterSuppressed that stamps the path with the time of the
   suppressed change. *)
AfterSuppressed_Restamped(lm, localPath, t) == MapSet(lm, localPath, t)

(* the debounce map after `if (now - lastMod < interval) return`: as it
   was *)
AfterSuppressed(lm, localPath, t) == lm

(* The callback fs.watch was given for handle h runs, and with it
   handleFileChange. *)
WatchCallback(h) ==
  /\ h \in pending
  /\ pending' = pending \ {h}
  /\ IF ~Qualifies(handles[h], curFile)
       THEN /\ lastOp' = [op |-> "callback", result |-> "ignored"]
            /\ UNCHANGED <<lastModified, emitted>>
     ELSE IF ~PassesDebounce(lastModified, config, handles[h].path, now)
       THEN /\ lastOp' = [op |-> "callback", result |-> "debounced"]
            /\ lastModified' = AfterSuppressed(lastModified, handles[h].path, now)
            /\ UNCHANGED emitted
     ELSE /\ lastModified' = MapSet(lastModified, handles[h].path, now)
          /\ emitted' = Append(emitted,
                          CodeUpdated(handles[h],
                                      PathJoin(handles[h].path, curFile[1]), now))
          /\ lastOp' = [op |-> "callback", result |-> "emitted"]
  /\ UNCHANGED <<env, config, isWatching, watchers, handles, curFile, now,
                 ticks, nChanges, lastChange, calls, probe, call, plugin>>

(* Time passes.  The callbacks of one change run back to back, within the
   same millisecond. *)
Tick ==
  /\ ticks < MaxTicks
  /\ pending = {}
  /\ ticks' = ticks + 1
  /\ \E d \in TickSteps(config) : now' = now + d
  /\ UNCHANGED <<env, config, isWatching, watchers, lastModified, handles,
                 pending, curFile, emitted, nChanges, lastChange, calls, lastOp,
                 probe, call, plugin>>

(* before any change is reported *)
NoChange ==
  [path |-> <<>>, at |-> 0, fresh |-> FALSE, watching |-> FALSE, base |-> 0]

(* the paths a change may be reported under *)
Paths == {<<"/", "r", "/", "a">>, <<"/", "r", "/", "b">>}

(* a change is reported under some directory, with some file name *)
SomeFsChange ==
  \E localPath \in Paths, filename \in FileNames : FsChange(localPath, filename)

(* no helper is called *)
NoCall == [fn |-> "none", arg |-> Null, result |-> Null, done |-> FALSE]

(* no plugin is at work *)
NoPlugin == [pc |-> "none"]

(* the readiness probe of cli.ts before waitForReady is called *)
ProbeIdle ==
  [pc |-> "idle", maxAttempts |-> 0, retryDelayMs |-> 0, i |-> 0,
   outcomes |-> <<>>, sleeps |-> 0, elapsed |-> 0]

(* some due callback runs *)
SomeWatchCallback == \E h \in DOMAIN handles : WatchCallback(h)

Init ==
  /\ env = WatcherEnv
  /\ config \in WatcherConfigs
  /\ isWatching = FALSE
  /\ watchers = EmptyMap
  /\ lastModified = EmptyMap
  /\ handles = <<>>
  /\ pending = {}
  /\ curFile = Null
  /\ now = StartTime
  /\ ticks = 0
  /\ emitted = <<>>
  /\ nChanges = 0
  /\ lastChange = NoChange
  /\ calls = 0
  /\ lastOp = [op |-> "init", result |-> "constructed"]
  /\ probe = ProbeIdle
  /\ call = NoCall
  /\ plugin = NoPlugin

Next ==
  \/ StartWatching
  \/ StopWatching
  \/ SomeFsChange
  \/ SomeWatchCallback
  \/ Tick

Spec == Init /\ [][Next]_vars

-----------------------------------------------------------------------------
(* cli.ts: LocalStackCLI.isHealthy and LocalStackCLI.waitForReady *)

(* How one fetch of the health URL may end: a response with a status, a
   network error, or the abort the per-attempt timeout raises. *)
FetchOutcomes ==
  [kind : {"response"}, status : {200, 204, 299, 300, 404, 503}]
    \cup [kind : {"network_error", "aborted"}, status : {0}]

(* Variant of IsCaught that catches the abort of the timeout only. *)
IsCaught_AbortOnly(outcome) == outcome.kind = "aborted"

(* the catch clause of isHealthy: it has no filter, so whatever fetch
   rejects with is caught *)
IsCaught(outcome) == outcome.kind \in {"network_error", "aborted"}

(* whether a call of isHealthy ends in an exception: fetch rejected and
   the catch clause let it through *)
isHealthyRaises(outcome) == outcome.kind # "response" /\ ~IsCaught(outcome)

(* isHealthy(port): res.ok of the response, false when fetch rejects *)
isHealthy(outcome) ==
  IF outcome.kind = "response"
    THEN outcome.status >= 200 /\ outcome.status <= 299
  ELSE FALSE

(* the arguments waitForReady is called with *)
AttemptLimits == 0..MaxAttempts
RetryDelays == {0, 10, 2000}

(* Variant of LoopHead that allows one more check. *)
LoopHead_OneMore(i, maxAttempts) == IF i <= maxAttempts THEN "check" ELSE "threw"

(* the loop test of waitForReady: the next health check, or the throw of
   the startup timeout once i reaches maxAttempts *)
LoopHead(i, maxAttempts) == IF i < maxAttempts THEN "check" ELSE "threw"

(* Variant of AfterCheck that sleeps and goes on even after a healthy
   check. *)
AfterCheck_AlwaysSleeps(healthy) == "sleep"

(* the loop body of waitForReady after isHealthy has answered: return when
   healthy, sleep otherwise *)
AfterCheck(healthy) == IF healthy THEN "returned" ELSE "sleep"

(* waitForReady(port, maxAttempts, retryDelayMs) is called *)
WaitForReady(maxAttempts, retryDelayMs) ==
  /\ probe.pc = "idle"
  /\ probe' = [probe EXCEPT !.maxAttempts = maxAttempts,
                            !.retryDelayMs = retryDelayMs,
                            !.i = 0,
                            !.pc = LoopHead(0, maxAttempts)]

(* await this.isHealthy(port), the fetch ending in the given way; an
   exception of isHealthy would leave waitForReady at once *)
HealthCheck(outcome) ==
  /\ probe.pc = "check"
  /\ probe' = [probe EXCEPT !.outcomes = Append(@, outcome),
                            !.pc = IF isHealthyRaises(outcome) THEN "raised"
                                   ELSE AfterCheck(isHealthy(outcome))]

(* Variant of NextIndex that leaves the loop counter where it is. *)
NextIndex_Stuck(i) == i

(* i++ *)
NextIndex(i) == i + 1

(* await this.sleep(retryDelayMs), then i++ and the loop test *)
Sleep ==
  /\ probe.pc = "sleep"
  /\ probe' = [probe EXCEPT !.sleeps = @ + 1,
                            !.elapsed = @ + probe.retryDelayMs,
                            !.i = NextIndex(@),
                            !.pc = LoopHead(NextIndex(probe.i), probe.maxAttempts)]

SomeWaitForReady ==
  /\ \E maxAttempts \in AttemptLimits, retryDelayMs \in RetryDelays :
       WaitForReady(maxAttempts, retryDelayMs)
  /\ UNCHANGED <<watcherVars, call, plugin>>

SomeHealthCheck ==
  /\ \E outcome \in FetchOutcomes : HealthCheck(outcome)
  /\ UNCHANGED <<watcherVars, call, plugin>>

SleepStep == Sleep /\ UNCHANGED <<watcherVars, call, plugin>>

(* One waitForReady call, with no watcher at work. *)
InitProbe ==
  /\ env = WatcherEnv
  /\ config = [enabled |-> FALSE, watchInterval |-> Null, lambdaPaths |-> <<>>,
               runtimeFileExtensions |-> Null]
  /\ isWatching = FALSE
  /\ watchers = EmptyMap
  /\ lastModified = EmptyMap
  /\ handles = <<>>
  /\ pending = {}
  /\ curFile = Null
  /\ now = StartTime
  /\ ticks = 0
  /\ emitted = <<>>
  /\ nChanges = 0
  /\ lastChange = NoChange
  /\ calls = 0
  /\ lastOp = [op |-> "init", result |-> "constructed"]
  /\ probe = ProbeIdle
  /\ call = NoCall
  /\ plugin = NoPlugin

NextProbe ==
  \/ SomeWaitForReady
  \/ SomeHealthCheck
  \/ SleepStep

SpecProbe == InitProbe /\ [][NextProbe]_vars

(* The same call when every await of waitForReady completes: a health
   check ends with a response, a network error or the abort of its timeout,
   and the timer of a sleep fires. *)
SpecProbeLive ==
  InitProbe /\ [][NextProbe]_vars /\ WF_vars(SomeHealthCheck) /\ WF_vars(SleepStep)

-----------------------------------------------------------------------------
(* Calls of the helpers of utils.ts and runtime-config.ts on their own. *)

(* the watcher and the probe at rest while a helper is called *)
IdleConfig ==
  [enabled |-> FALSE, watchInterval |-> Null, lambdaPaths |-> <<>>,
   runtimeFileExtensions |-> Null]

AtRest ==
  /\ config = IdleConfig
  /\ isWatching = FALSE
  /\ watchers = EmptyMap
  /\ lastModified = EmptyMap
  /\ handles = <<>>
  /\ pending = {}
  /\ curFile = Null
  /\ now = StartTime
  /\ ticks = 0
  /\ emitted = <<>>
  /\ nChanges = 0
  /\ lastChange = NoChange
  /\ calls = 0
  /\ lastOp = [op |-> "init", result |-> "constructed"]
  /\ probe = ProbeIdle
  /\ plugin = NoPlugin

(* the strings of a sequence, one after the other *)
RECURSIVE Concat(_)
Concat(ss) == IF ss = <<>> THEN <<>> ELSE Head(ss) \o Concat(Tail(ss))

(* The pieces the argument of expandEnvironmentVariables is made of:
   references to A and to U in both styles, a name character, a character
   that ends a name, and the three delimiters on their own. *)
ExpandTokens ==
  {<<"$", "{", "A", "}">>, <<"$", "A">>,
   <<"$", "{", "U", "}">>, <<"$", "U">>,
   <<"A">>, <<"-">>, <<"$">>, <<"{">>, <<"}">>}

(* the strings made of at most n pieces *)
TokenStrings(n) ==
  {Concat(ts) : ts \in UNION {[1..k -> ExpandTokens] : k \in 0..n}}

(* The values process.env may hold when expandEnvironmentVariables is
   called: U is never set; A is unset, plain text, empty, text that is no
   name character, or text that reads as a reference to B; B, Av and Uv
   are set in some. *)
ExpandEnvs ==
  {EmptyMap,
   <<"A">> :> <<"v">>,
   <<"A">> :> <<>>,
   <<"A">> :> <<"-">>,
   (<<"A">> :> <<"$", "B">>) @@ (<<"B">> :> <<"w">>),
   <<"A">> :> <<"$", "B">>,
   (<<"A">> :> <<"$", "{", "B", "}">>) @@ (<<"B">> :> <<"w">>),
   (<<"A">> :> <<"v">>) @@ (<<"A", "v">> :> <<"z">>),
   (<<"A">> :> <<"v">>) @@ (<<"U", "v">> :> <<"z">>)}

(* expandEnvironmentVariables(value) is about to be called *)
InitExpand ==
  /\ AtRest
  /\ env \in ExpandEnvs
  /\ \E value \in TokenStrings(MaxTokens) :
       call = [fn |-> "expandEnvironmentVariables", arg |-> Some(value),
               result |-> Null, done |-> FALSE]

(* the call of expandEnvironmentVariables returns *)
ExpandCall ==
  /\ call.fn = "expandEnvironmentVariables"
  /\ ~call.done
  /\ call' = [call EXCEPT
                !.result = Some(expandEnvironmentVariables(env, call.arg[1])),
                !.done = TRUE]
  /\ UNCHANGED <<watcherVars, probe, plugin>>

NextExpand == ExpandCall

SpecExpand == InitExpand /\ [][NextExpand]_vars

(* The values expandEnvironmentVariablesInObject is called with: leaves of
   every type, arrays of at most MaxItems items and objects under some of
   two keys (one of which reads as a reference), their items being leaves
   or nested arrays and objects. *)
DeepLeaves ==
  {JsString(<<"$", "{", "A", "}">>), JsString(<<"$", "U">>), JsString(<<>>),
   JsNumber(7), JsBoolean(TRUE), JsNull}

DeepKeys == {<<"k">>, <<"$", "{", "A", "}">>}

DeepNested ==
  {JsArray(<<>>),
   JsArray(<<JsString(<<"$", "{", "A", "}">>), JsNumber(7)>>),
   JsObject(<<"k">> :> JsString(<<"$", "A">>)),
   JsObject(<<"k">> :> JsArray(<<JsString(<<"x", "$", "{", "A", "}">>)>>))}

ArraysOf(S) ==
  {JsArray(items) : items \in UNION {[1..n -> S] : n \in 0..MaxItems}}

ObjectsOf(S) ==
  {JsObject(entries) : entries \in UNION {[K -> S] : K \in SUBSET DeepKeys}}

DeepValues ==
  {JsUndefined} \cup DeepLeaves
    \cup ArraysOf(DeepLeaves \cup DeepNested)
    \cup ObjectsOf(DeepLeaves \cup DeepNested)

(* expandEnvironmentVariablesInObject(obj) is about to be called *)
InitDeep ==
  /\ AtRest
  /\ env \in ExpandEnvs
  /\ \E obj \in DeepValues :
       call = [fn |-> "expandEnvironmentVariablesInObject", arg |-> Some(obj),
               result |-> Null, done |-> FALSE]

(* the call returns: the result is built from new arrays and objects, and
   nothing is written to the argument *)
DeepCall ==
  /\ call.fn = "expandEnvironmentVariablesInObject"
  /\ ~call.done
  /\ call' = [call EXCEPT
                !.result = Some(expandEnvironmentVariablesInObject(env, call.arg[1])),
                !.done = TRUE]
  /\ UNCHANGED <<watcherVars, probe, plugin>>

NextDeep == DeepCall

SpecDeep == InitDeep /\ [][NextDeep]_vars

(* The runtimes getFileExtensionsForRuntime is called with: a key of the
   table; names whose text before the first "." is a key, or is one once
   its trailing digits are gone; names only a custom mapping knows; names
   nothing knows; and names with nothing before the "." or nothing at
   all. *)
ResolveRuntimes ==
  {<<"p", "y", "t", "h", "o", "n", "3", ".", "8">>,
   <<"p", "y", "t", "h", "o", "n", "3", ".", "1", "3">>,
   <<"p", "y", "t", "h", "o", "n", "3", ".", "8", ".", "1">>,
   <<"p", "y", "t", "h", "o", "n", "4">>,
   <<"j", "a", "v", "a", "9", "9">>,
   <<"n", "o", "d", "e", "j", "s", "9", "9", ".", "x">>,
   <<"g", "o", "1", ".", "x">>,
   <<"m", "y", "l", "a", "n", "g">>,
   <<"m", "y", "l", "a", "n", "g", "2", ".", "0">>,
   <<"u", "n", "k", "n", "o", "w", "n", "-", "r", "u", "n", "t", "i", "m", "e">>,
   <<"c", "u", "s", "t", "o", "m", "-", "l", "a", "n", "g", "-", "1", ".", "0">>,
   <<"P", "y", "t", "h", "o", "n", "3", ".", "8">>,
   <<"3", ".", "9">>,
   <<".", "x">>,
   <<>>}

(* The custom mappings it is called with: none; new names and a changed
   entry; entries for a text before the "." and for a whole name; an
   entry for a family; empty lists; an empty object. *)
ResolveMappings ==
  {Null,
   Some((<<"m", "y", "l", "a", "n", "g">> :> <<<<".", "m", "l">>, <<".", "m", "l", "i">>>>) @@ (<<"p", "y", "t", "h", "o", "n", "3", ".", "8">> :> <<<<".", "p", "y">>, <<".", "p", "y", "x">>, <<".", "p", "y", "i">>>>)),
   Some((<<"p", "y", "t", "h", "o", "n", "3">> :> <<<<".", "p", "3">>>>) @@ (<<"j", "a", "v", "a", "9", "9">> :> <<<<".", "j", "9", "9">>>>)),
   Some((<<"p", "y", "t", "h", "o", "n">> :> <<<<".", "p", "y", "w">>>>) @@ (<<"c", "u", "s", "t", "o", "m", "-", "l", "a", "n", "g", "-", "1">> :> <<<<".", "c", "l">>>>)),
   Some((<<"j", "a", "v", "a">> :> <<>>) @@ (<<"u", "n", "k", "n", "o", "w", "n", "-", "r", "u", "n", "t", "i", "m", "e">> :> <<>>)),
   Some(EmptyMap)}

(* getFileExtensionsForRuntime(runtime, customMappings) is about to be
   called; defaults is what DEFAULT_RUNTIME_FILE_EXTENSIONS holds *)
InitResolve ==
  /\ AtRest
  /\ env = WatcherEnv
  /\ \E runtime \in ResolveRuntimes, customMappings \in ResolveMappings :
       call = [fn |-> "getFileExtensionsForRuntime",
               arg |-> Some([runtime |-> runtime,
                             customMappings |-> customMappings]),
               result |-> Null, done |-> FALSE,
               defaults |-> DEFAULT_RUNTIME_FILE_EXTENSIONS]

(* the call returns; the merged table is a new object, the module's table
   is only read *)
ResolveCall ==
  /\ call.fn = "getFileExtensionsForRuntime"
  /\ ~call.done
  /\ call' = [call EXCEPT
                !.result = Some(getFileExtensionsForRuntime(
                                  call.arg[1].runtime,
                                  call.arg[1].customMappings)),
                !.done = TRUE]
  /\ UNCHANGED <<watcherVars, probe, plugin>>

NextResolve == ResolveCall

SpecResolve == InitResolve /\ [][NextResolve]_vars

-----------------------------------------------------------------------------
(* hot-reload.ts: the interval and the debounce test of handleFileChange *)

(* what hotReloading.watchInterval may be configured as: unset, or a
   number; the type asks for no more than a number *)
WatchIntervals ==
  {Null} \cup {Some(w) : w \in {-700, -1, 0, 1, 3, 699, 700, 701, 1400}}

(* how long after the last accepted change of its path a change arrives *)
ElapsedTimes == {0, 1, 2, 3, 699, 700, 701, 1400}

(* handleFileChange is about to run for a path whose last accepted change
   was at StartTime *)
InitInterval ==
  /\ AtRest
  /\ env = WatcherEnv
  /\ \E watchInterval \in WatchIntervals, elapsed \in ElapsedTimes :
       call = [fn |-> "handleFileChange",
               arg |-> Some([watchInterval |-> watchInterval,
                             elapsed |-> elapsed]),
               result |-> Null, done |-> FALSE]

(* handleFileChange computes interval and makes the debounce test *)
IntervalCall ==
  /\ call.fn = "handleFileChange"
  /\ ~call.done
  /\ LET cfg == [IdleConfig EXCEPT !.watchInterval = call.arg[1].watchInterval]
         localPath == <<"/", "r", "/", "a">>
     IN call' = [call EXCEPT
                   !.result =
                     Some([interval |-> Interval(cfg),
                           accepted |->
                             PassesDebounce(MapSet(EmptyMap, localPath, StartTime),
                                            cfg, localPath,
                                            StartTime + call.arg[1].elapsed)]),
                   !.done = TRUE]
  /\ UNCHANGED <<watcherVars, probe, plugin>>

NextInterval == IntervalCall

SpecInterval == InitInterval /\ [][NextInterval]_vars

-----------------------------------------------------------------------------
(* cli.ts: LocalStackCLI.createHotReloadFunction *)

LOCALSTACK_HOT_RELOAD_BUCKET ==
  <<"L", "O", "C", "A", "L", "S", "T", "A", "C", "K", "_", "H", "O", "T", "_",
    "R", "E", "L", "O", "A", "D", "_", "B", "U", "C", "K", "E", "T">>

(* process.env.LOCALSTACK_HOT_RELOAD_BUCKET || 'hot-reload' *)
HotReloadBucket(e) ==
  IF LOCALSTACK_HOT_RELOAD_BUCKET \in DOMAIN e
     /\ e[LOCALSTACK_HOT_RELOAD_BUCKET] # <<>>
    THEN e[LOCALSTACK_HOT_RELOAD_BUCKET]
  ELSE <<"h", "o", "t", "-", "r", "e", "l", "o", "a", "d">>

(* Variant of PathIsRejected that rejects no path. *)
PathIsRejected_Never(localPath) == FALSE

(* the validation of createHotReloadFunction: !path.isAbsolute(localPath) *)
PathIsRejected(localPath) == ~IsAbsolute(localPath)

(* createHotReloadFunction(functionName, localPath, handler, runtime, env)
   with process.env e, the command failing or not: the error it ends in
   (none, the path error, the one exec rejects with) and the commands it
   has handed to exec, each given by the values put into the
   `awslocal lambda create-function` line *)
createHotReloadFunction(e, functionName, localPath, handler, runtime, execFails) ==
  IF PathIsRejected(localPath)
    THEN [raised |-> "path", commands |-> <<>>]
  ELSE [raised |-> IF execFails THEN "exec" ELSE "none",
        commands |-> <<[functionName |-> functionName,
                        S3Bucket |-> HotReloadBucket(e),
                        S3Key |-> localPath,
                        handler |-> handler,
                        runtime |-> runtime]>>]

(* The arguments createHotReloadFunction is called with: paths that are
   absolute, relative or empty. *)
CreateArguments ==
  [functionName : {<<"A">>, <<"B">>},
   localPath : {<<"/", "r", "/", "a">>, <<"/">>, <<"a">>, <<".", "/", "a">>,
                <<".", ".", "/", "a">>, <<>>, <<"r", "/", "a">>},
   handler : {<<"h">>, <<"h", ".", "m">>},
   runtime : {<<"p", "y", "t", "h", "o", "n", "3", ".", "8">>,
              <<"n", "o", "d", "e", "j", "s", "1", "8", ".", "x">>},
   execFails : BOOLEAN]

(* createHotReloadFunction is about to be called *)
InitCreate ==
  /\ AtRest
  /\ env \in {EmptyMap,
              LOCALSTACK_HOT_RELOAD_BUCKET :> <<>>,
              LOCALSTACK_HOT_RELOAD_BUCKET :> <<"b">>}
  /\ \E args \in CreateArguments :
       call = [fn |-> "createHotReloadFunction", arg |-> Some(args),
               result |-> Null, done |-> FALSE]

(* the call of createHotReloadFunction returns or raises *)
CreateCall ==
  /\ call.fn = "createHotReloadFunction"
  /\ ~call.done
  /\ LET a == call.arg[1]
     IN call' = [call EXCEPT
                   !.result = Some(createHotReloadFunction(
                                     env, a.functionName, a.localPath,
                                     a.handler, a.runtime, a.execFails)),
                   !.done = TRUE]
  /\ UNCHANGED <<watcherVars, probe, plugin>>

NextCreate == CreateCall

SpecCreate == InitCreate /\ [][NextCreate]_vars

-----------------------------------------------------------------------------
(* runtime-config.ts: LocalStackPlugin.getPort *)

GATEWAY_LISTEN ==
  <<"G", "A", "T", "E", "W", "A", "Y", "_", "L", "I", "S", "T", "E", "N">>

(* the value of a digit in base 16, 16 for any other character *)
HexValue(c) ==
  CASE c = "0" -> 0 [] c = "1" -> 1 [] c = "2" -> 2 [] c = "3" -> 3
    [] c = "4" -> 4 [] c = "5" -> 5 [] c = "6" -> 6 [] c = "7" -> 7
    [] c = "8" -> 8 [] c = "9" -> 9
    [] c \in {"a", "A"} -> 10 [] c \in {"b", "B"} -> 11
    [] c \in {"c", "C"} -> 12 [] c \in {"d", "D"} -> 13
    [] c \in {"e", "E"} -> 14 [] c \in {"f", "F"} -> 15
    [] OTHER -> 16

(* s without its leading white space *)
RECURSIVE TrimStart(_)
TrimStart(s) ==
  IF s # <<>> /\ Head(s) = " " THEN TrimStart(Tail(s)) ELSE s

(* the value of the longest prefix of s, from position i on, that is made
   of digits of the radix, given the value acc of the digits read so far;
   Null when there is no digit.  A JavaScript number holds every value a
   port is compared with; here a value above 1000000 is kept at 1000000,
   which is all its caller can tell of it. *)
RECURSIVE ParseDigits(_, _, _, _, _)
ParseDigits(s, i, radix, acc, any) ==
  IF i <= Len(s) /\ HexValue(s[i]) < radix
    THEN ParseDigits(s, i + 1, radix,
                     IF acc * radix + HexValue(s[i]) > 1000000 THEN 1000000
                     ELSE acc * radix + HexValue(s[i]),
                     TRUE)
  ELSE IF any THEN Some(acc) ELSE Null

(* parseInt(s) with no radix: white space, a sign, 0x or 0X for base 16,
   then as many digits as there are; NaN (Null) when there is none *)
ParseInt(s) ==
  LET t == TrimStart(s)
      signed == t # <<>> /\ Head(t) \in {"+", "-"}
      u == IF signed THEN Tail(t) ELSE t
      hex == Len(u) >= 2 /\ u[1] = "0" /\ u[2] \in {"x", "X"}
      digits == IF hex
                  THEN ParseDigits(u, 3, 16, 0, FALSE)
                ELSE ParseDigits(u, 1, 10, 0, FALSE)
  IN IF digits = Null THEN Null
     ELSE IF signed /\ Head(t) = "-" THEN Some(0 - digits[1])
     ELSE digits

(* getEnvironment(): config?.environment || {}, of a plugin configuration
   that may be absent and whose environment may be *)
getEnvironment(cfg) ==
  IF cfg = Null THEN EmptyMap
  ELSE IF cfg[1].environment = Null THEN EmptyMap
  ELSE cfg[1].environment[1]

(* Variant of PortIsInvalid that has no upper limit. *)
PortIsInvalid_NoUpperLimit(port) == port = Null \/ port[1] < 1

(* isNaN(port) || port < 1 || port > 65535 *)
PortIsInvalid(port) == port = Null \/ port[1] < 1 \/ port[1] > 65535

(* getPort(): the port, or the invalid-port error *)
getPort(cfg) ==
  LET environment == getEnvironment(cfg)
      listen == IF GATEWAY_LISTEN \in DOMAIN environment
                   /\ environment[GATEWAY_LISTEN] # <<>>
                  THEN environment[GATEWAY_LISTEN]
                ELSE <<"1", "2", "7", ".", "0", ".", "0", ".", "1", ":",
                       "4", "5", "6", "6">>
      parts == Split(listen, ":")
      last == parts[Len(parts)]
      port == ParseInt(IF last # <<>> THEN last ELSE <<"4", "5", "6", "6">>)
  IN IF PortIsInvalid(port) THEN [raised |-> TRUE, port |-> Null]
     ELSE [raised |-> FALSE, port |-> port]

(* The pieces GATEWAY_LISTEN is written with. *)
ListenTokens ==
  {<<"4", "5", "6", "6">>, <<"4", "4", "3">>, <<"0">>,
   <<"6", "5", "5", "3", "5">>, <<"6", "5", "5", "3", "6">>,
   <<":">>, <<"a">>, <<"-">>, <<" ">>, <<"0", "x", "1">>, <<".">>}

(* the values of GATEWAY_LISTEN made of at most n pieces *)
ListenStrings(n) ==
  {Concat(ts) : ts \in UNION {[1..k -> ListenTokens] : k \in 0..n}}

(* The plugin configurations getPort is called with: none, one without an
   environment, one whose environment has no GATEWAY_LISTEN, one whose
   environment has. *)
PortConfigs ==
  {Null,
   Some([environment |-> Null]),
   Some([environment |-> Some(<<"D", "E", "B", "U", "G">> :> <<"1">>)])}
    \cup {Some([environment |-> Some(GATEWAY_LISTEN :> l)]) :
            l \in ListenStrings(MaxTokens)}

(* getPort() is about to be called *)
InitPort ==
  /\ AtRest
  /\ env = EmptyMap
  /\ \E cfg \in PortConfigs :
       call = [fn |-> "getPort", arg |-> Some(cfg), result |-> Null,
               done |-> FALSE]

(* the call of getPort returns or raises *)
PortCall ==
  /\ call.fn = "getPort"
  /\ ~call.done
  /\ call' = [call EXCEPT !.result = Some(getPort(call.arg[1])),
                          !.done = TRUE]
  /\ UNCHANGED <<watcherVars, probe, plugin>>

NextPort == PortCall

SpecPort == InitPort /\ [][NextPort]_vars

-----------------------------------------------------------------------------
(* runtime-config.ts: LocalStackPlugin, its handler of
   orchestrator:before:pattern-detection and its cleanup.  The variable
   config is the hotReloading part of the plugin's configuration, plugin.cfg
   the rest of it; plugin.log holds the calls the handler has made on the
   CLI and the watcher, each with its result, plugin.cleanupLog those of
   cleanup. *)

(* the plugin after initialize(): subscribed, the handler not yet run *)
PluginIdle(cfg) ==
  [pc |-> "idle", cfg |-> cfg, log |-> <<>>, i |-> 0,
   cleaned |-> FALSE, cleanupLog |-> <<>>, cleanupRaised |-> FALSE]

(* this.hotReloadWatcher is set: initialize() found hotReloading.enabled *)
HasWatcher == config.enabled

(* shouldRun(): the environment is local and the plugin is enabled *)
shouldRun(cfg) == cfg.isLocal /\ cfg.enabled

(* Variant of AutoStart that takes every configuration for autoStart. *)
AutoStart_Always(cfg) == TRUE

(* Variant of AutoStart that takes the start sequence exactly when autoStart
   is false. *)
AutoStart_Inverted(cfg) == cfg.autoStart = Some(FALSE)

(* config?.autoStart !== false *)
AutoStart(cfg) == cfg.autoStart # Some(FALSE)

(* config?.waitForReady?.maxAttempts ?? 30 *)
MaxAttemptsOf(cfg) ==
  IF cfg.maxAttempts = Null THEN 30 ELSE cfg.maxAttempts[1]

(* config?.waitForReady?.retryDelayMs ?? 2000 *)
RetryDelayOf(cfg) ==
  IF cfg.retryDelayMs = Null THEN 2000 ELSE cfg.retryDelayMs[1]

(* the handler ends: normally, or with the error of the step that failed *)
Ended(failed) == IF failed THEN "failed" ELSE "done"

(* The handler is called with the event and runs up to its first await. *)
PatternDetection ==
  /\ plugin.pc = "idle"
  /\ ~plugin.cleaned
  /\ plugin' = [plugin EXCEPT !.pc =
                  IF ~shouldRun(plugin.cfg) THEN "done"
                  ELSE IF AutoStart(plugin.cfg) THEN "ensureNotRunning"
                  ELSE "ensureRunning"]
  /\ UNCHANGED <<watcherVars, probe, call>>

(* ensureNotRunning() or ensureRunning(): getPort(), which may raise, then
   one isHealthy(port); when healthy has the value stop, the step ends in
   an error *)
EnsureStep(at, stop, next, outcome) ==
  /\ plugin.pc = at
  /\ LET port == getPort(Some(plugin.cfg))
         healthy == isHealthy(outcome)
     IN plugin' =
          IF port.raised THEN [plugin EXCEPT !.pc = "failed"]
          ELSE [plugin EXCEPT
                  !.log = Append(@, [call |-> "isHealthy", port |-> port.port[1],
                                     result |-> healthy]),
                  !.pc = IF healthy = stop THEN "failed" ELSE next]
  /\ UNCHANGED <<watcherVars, probe, call>>

EnsureNotRunning ==
  \E outcome \in FetchOutcomes :
    EnsureStep("ensureNotRunning", TRUE, "checkDependencies", outcome)

EnsureRunning ==
  \E outcome \in FetchOutcomes :
    EnsureStep("ensureRunning", FALSE, "done", outcome)

(* checkDependencies(): hasLocalStackCLI() finds the command or not *)
CheckDependencies ==
  /\ plugin.pc = "checkDependencies"
  /\ \E found \in BOOLEAN :
       plugin' = [plugin EXCEPT
                    !.log = Append(@, [call |-> "hasLocalStackCLI",
                                       result |-> found]),
                    !.pc = IF found THEN "start" ELSE "failed"]
  /\ UNCHANGED <<watcherVars, probe, call>>

(* startLocalStack() up to cli.start(env): `localstack start -d` succeeds
   or fails *)
StartLocalStack ==
  /\ plugin.pc = "start"
  /\ \E execFails \in BOOLEAN :
       plugin' = [plugin EXCEPT
                    !.log = Append(@, [call |-> "start",
                                       result |-> ~execFails]),
                    !.pc = IF execFails THEN "failed" ELSE "waitForReady"]
  /\ UNCHANGED <<watcherVars, probe, call>>

(* startLocalStack() calls cli.waitForReady(getPort(), maxAttempts,
   retryDelayMs) *)
CallWaitForReady ==
  /\ plugin.pc = "waitForReady"
  /\ WaitForReady(MaxAttemptsOf(plugin.cfg), RetryDelayOf(plugin.cfg))
  /\ plugin' = [plugin EXCEPT !.pc = "waiting"]
  /\ UNCHANGED <<watcherVars, call>>

(* Variant of WaitSucceeded that goes on whatever waitForReady ended in. *)
WaitSucceeded_Always(p) == TRUE

(* waitForReady returned, and did not throw *)
WaitSucceeded(p) == p.pc = "returned"

(* waitForReady has ended.  After a timeout the handler ends in that
   error; otherwise startHotReloading() begins, and returns at once when
   there is no watcher or no Lambda path. *)
AfterWaitForReady ==
  /\ plugin.pc = "waiting"
  /\ probe.pc \in {"returned", "threw", "raised"}
  /\ plugin' = [plugin EXCEPT
                  !.log = Append(@, [call |-> "waitForReady",
                                     result |-> probe.pc]),
                  !.i = 1,
                  !.pc = IF ~WaitSucceeded(probe) THEN "failed"
                         ELSE IF ~HasWatcher THEN "done"
                         ELSE IF Len(config.lambdaPaths) = 0 THEN "done"
                         ELSE "register"]
  /\ UNCHANGED <<watcherVars, probe, call>>

(* Variant of ResolvedPath that hands the expanded path on as it is. *)
ResolvedPath_AsExpanded(e, lambdaPath) ==
  expandEnvironmentVariables(e, lambdaPath.localPath)

(* startHotReloading: expandedPath, and resolvedPath made of it *)
ResolvedPath(e, lambdaPath) ==
  LET expandedPath == expandEnvironmentVariables(e, lambdaPath.localPath)
  IN IF IsAbsolute(expandedPath) THEN expandedPath
     ELSE PathResolve(ProjectRoot, expandedPath)

(* Variant of RegistrationGoesOn that ends the loop at the first error. *)
RegistrationGoesOn_UntilError(result) == result.raised = "none"

(* the try and catch around one registration: whatever
   createHotReloadFunction ends in, the loop goes on *)
RegistrationGoesOn(result) == TRUE

(* One pass of the loop of startHotReloading: createHotReloadFunction for
   entry plugin.i of lambdaPaths, the command succeeding or failing. *)
Register ==
  /\ plugin.pc = "register"
  /\ \E execFails \in BOOLEAN :
       LET lambdaPath == config.lambdaPaths[plugin.i]
           functionName == expandEnvironmentVariables(env, lambdaPath.functionName)
           localPath == ResolvedPath(env, lambdaPath)
           result == createHotReloadFunction(
                       env, functionName, localPath,
                       expandEnvironmentVariables(env, lambdaPath.handler),
                       lambdaPath.runtime, execFails)
       IN plugin' = [plugin EXCEPT
                       !.log = Append(@, [call |-> "createHotReloadFunction",
                                          functionName |-> functionName,
                                          localPath |-> localPath,
                                          result |-> result.raised]),
                       !.i = @ + 1,
                       !.pc = IF ~RegistrationGoesOn(result) THEN "failed"
                              ELSE IF plugin.i = Len(config.lambdaPaths)
                                THEN "startWatching"
                              ELSE "register"]
  /\ UNCHANGED <<watcherVars, probe, call>>

(* startHotReloading ends with hotReloadWatcher.startWatching(); what
   startWatching raises ends the handler in that error. *)
PluginStartWatching ==
  /\ plugin.pc = "startWatching"
  /\ LET noop == StartIsNoOp \/ NoLambdaPaths
         st == IF noop THEN WatcherState
               ELSE WatchAll(WatcherState, env, config, 1, now)
     IN /\ watchers' = st.watchers
        /\ lastModified' = st.lastModified
        /\ handles' = st.handles
        /\ isWatching' = (IF noop \/ st.raised THEN isWatching ELSE TRUE)
        /\ lastOp' = [op |-> "startWatching",
                      result |-> IF noop THEN "noop"
                                 ELSE IF st.raised THEN "raised" ELSE "started"]
        /\ plugin' = [plugin EXCEPT
                        !.log = Append(@, [call |-> "startWatching",
                                           result |-> ~st.raised]),
                        !.pc = Ended(st.raised)]
  /\ UNCHANGED <<env, config, pending, curFile, now, ticks, emitted, nChanges,
                 lastChange, calls, probe, call>>

(* Variant of StopsLocalStack that stops LocalStack at every cleanup. *)
StopsLocalStack_Always(cfg) == TRUE

(* config?.stopOnCleanup && this.cli *)
StopsLocalStack(cfg) == cfg.stopOnCleanup = Some(TRUE)

(* cleanup(), called when the handler is not running: stopWatching() on the
   watcher if there is one, then `localstack stop` if configured, which
   succeeds or fails, then the handler is unsubscribed. *)
Cleanup ==
  /\ plugin.pc \in {"idle", "done", "failed"}
  /\ ~plugin.cleaned
  /\ IF HasWatcher /\ ~StopIsNoOp
       THEN /\ handles' = [h \in DOMAIN handles |->
                             IF h \in Registered
                               THEN [handles[h] EXCEPT !.open = FALSE]
                             ELSE handles[h]]
            /\ watchers' = EmptyMap
            /\ lastModified' = EmptyMap
            /\ isWatching' = FALSE
            /\ lastOp' = [op |-> "stopWatching", result |-> "stopped"]
     ELSE UNCHANGED <<handles, watchers, lastModified, isWatching, lastOp>>
  /\ \E execFails \in BOOLEAN :
       LET stopped == IF HasWatcher THEN <<[call |-> "stopWatching"]>> ELSE <<>>
           stops == StopsLocalStack(plugin.cfg)
       IN /\ stops \/ ~execFails
          /\ plugin' = [plugin EXCEPT
                          !.cleaned = TRUE,
                          !.cleanupLog =
                             IF stops THEN Append(stopped, [call |-> "stop"])
                             ELSE stopped,
                          !.cleanupRaised = stops /\ execFails]
  /\ UNCHANGED <<env, config, pending, curFile, now, ticks, emitted, nChanges,
                 lastChange, calls, probe, call>>

(* The configurations of the plugin, hotReloading apart: local and enabled
   or not, autoStart unset, true or false, GATEWAY_LISTEN unset, a port or
   no port, waitForReady.maxAttempts 0 or 2, stopOnCleanup unset or
   true. *)
PluginConfigs ==
  [isLocal : BOOLEAN,
   enabled : BOOLEAN,
   autoStart : {Null, Some(TRUE), Some(FALSE)},
   environment : {Null,
                  Some(GATEWAY_LISTEN :> <<"0", ":", "4", "4", "3">>),
                  Some(GATEWAY_LISTEN :> <<"0", ":", "0">>)},
   maxAttempts : {Some(0), Some(2)},
   retryDelayMs : {Null},
   stopOnCleanup : {Null, Some(TRUE)}]

(* hotReloading: disabled or enabled, with no Lambda path, one, two on one
   directory (the second written relative to the project root), a file
   and a directory given by a variable, or a directory fs.watch fails
   on. *)
PluginWatcherConfigs ==
  [enabled : BOOLEAN,
   watchInterval : {Null},
   lambdaPaths : {<<>>, <<TargetA>>, <<TargetA, TargetB>>,
                  <<TargetFile, TargetC>>, <<TargetA, TargetNoWatch>>},
   runtimeFileExtensions : {Null}]

InitPlugin ==
  /\ env = WatcherEnv
  /\ config \in PluginWatcherConfigs
  /\ isWatching = FALSE
  /\ watchers = EmptyMap
  /\ lastModified = EmptyMap
  /\ handles = <<>>
  /\ pending = {}
  /\ curFile = Null
  /\ now = StartTime
  /\ ticks = 0
  /\ emitted = <<>>
  /\ nChanges = 0
  /\ lastChange = NoChange
  /\ calls = 0
  /\ lastOp = [op |-> "init", result |-> "constructed"]
  /\ probe = ProbeIdle
  /\ call = NoCall
  /\ \E cfg \in PluginConfigs : plugin = PluginIdle(cfg)

NextPlugin ==
  \/ PatternDetection
  \/ EnsureNotRunning
  \/ EnsureRunning
  \/ CheckDependencies
  \/ StartLocalStack
  \/ CallWaitForReady
  \/ SomeHealthCheck
  \/ SleepStep
  \/ AfterWaitForReady
  \/ Register
  \/ PluginStartWatching
  \/ Cleanup

SpecPlugin == InitPlugin /\ [][NextPlugin]_vars

-----------------------------------------------------------------------------
(* The watcher with targets whose extensions come from every source. *)

(* a function on /r/a with an explicit, empty list of extensions *)
TargetNoExtensions ==
  [functionName |-> <<"E">>, localPath |-> <<"/", "r", "/", "a">>,
   handler |-> <<"h">>,
   runtime |-> <<"p", "y", "t", "h", "o", "n", "3", ".", "8">>,
   fileExtensions |-> Some(<<>>)]

(* a function on /r/a whose runtime the built-in table does not know *)
TargetCustomRuntime ==
  [functionName |-> <<"L">>, localPath |-> <<"/", "r", "/", "a">>,
   handler |-> <<"h">>,
   runtime |-> <<"m", "y", "l", "a", "n", "g">>,
   fileExtensions |-> Null]

(* a function on /r/b whose runtime is written with a variable reference:
   $N is B in the environment *)
TargetVarRuntime ==
  [functionName |-> <<"V">>, localPath |-> <<"/", "r", "/", "b">>,
   handler |-> <<"h">>,
   runtime |-> <<"$", "N">>,
   fileExtensions |-> Null]

(* hotReloading.runtimeFileExtensions: unset, or entries for python3.8
   (empty), mylang, B and nodejs18.x *)
TargetOverrides ==
  {Null,
   Some((<<"p", "y", "t", "h", "o", "n", "3", ".", "8">> :> <<>>)
        @@ (<<"m", "y", "l", "a", "n", "g">> :> <<<<".", "p", "y">>>>)
        @@ (<<"B">> :> <<<<".", "b">>>>)
        @@ (<<"n", "o", "d", "e", "j", "s", "1", "8", ".", "x">>
              :> <<<<".", "m", "j", "s">>>>))}

(* hotReloading.defaultFileExtensions: unset, or one extension that no
   built-in list has *)
TargetDefaults == {Null, Some(<<<<".", "z", "z">>>>)}

(* a configuration with hot reloading enabled *)
TargetConfig(ts, m, d) ==
  [enabled |-> TRUE, watchInterval |-> Null, lambdaPaths |-> ts,
   runtimeFileExtensions |-> m, defaultFileExtensions |-> d]

(* Enabled targets, with and without the override table: an explicit list
   (TargetB), an explicit empty list, the built-in entry of the runtime, a
   custom entry that is empty, the default list of an unknown runtime, a
   custom entry for it; an unknown runtime with defaultFileExtensions
   configured; and a target with an explicit list next to one whose
   runtime is written with a reference. *)
TargetConfigs ==
  {TargetConfig(<<t>>, m, Null) :
     t \in {TargetA, TargetB, TargetNoExtensions, TargetCustomRuntime},
     m \in TargetOverrides}
    \cup {TargetConfig(<<TargetCustomRuntime>>, Null, d) : d \in TargetDefaults}
    \cup {TargetConfig(<<TargetB, TargetVarRuntime>>, m, Null) :
            m \in TargetOverrides \ {Null}}

InitTargets ==
  /\ env = WatcherEnv
  /\ config \in TargetConfigs
  /\ isWatching = FALSE
  /\ watchers = EmptyMap
  /\ lastModified = EmptyMap
  /\ handles = <<>>
  /\ pending = {}
  /\ curFile = Null
  /\ now = StartTime
  /\ ticks = 0
  /\ emitted = <<>>
  /\ nChanges = 0
  /\ lastChange = NoChange
  /\ calls = 0
  /\ lastOp = [op |-> "init", result |-> "constructed"]
  /\ probe = ProbeIdle
  /\ call = NoCall
  /\ plugin = NoPlugin

SpecTargets == InitTargets /\ [][Next]_vars

-----------------------------------------------------------------------------
(* Properties of the watcher. *)

(* the native watches that are open *)
OpenHandles == {h \in DOMAIN handles : handles[h].open}

(* the target startWatching builds for entry i of lambdaPaths *)
Target(i) == ResolvedConfig(env, config, config.lambdaPaths[i])

TargetIndices == 1..Len(config.lambdaPaths)

(* C1: at most one native watch is open per distinct resolved localPath;
   two targets with the same resolved localPath share one native watch. *)
C1_OneOpenHandlePerPath ==
  \A h1, h2 \in OpenHandles :
    handles[h1].path = handles[h2].path => h1 = h2

(* the events emitted for the last reported change *)
EmittedForLastChange ==
  {emitted[n] : n \in (lastChange.base + 1)..Len(emitted)}

(* C2: when two targets share a resolved localPath and both accept the
   changed file's extension, a change reported outside the debounce window
   has, once its callbacks have run, produced an event for each of the two
   function names. *)
C2_BothTargetsNotified ==
  (/\ isWatching /\ lastChange.watching /\ lastChange.fresh
   /\ nChanges > 0 /\ pending = {} /\ lastOp.op = "callback")
  => \A i, j \in TargetIndices :
       (/\ i # j
        /\ Target(i).localPath = lastChange.path
        /\ Target(j).localPath = lastChange.path
        /\ Qualifies(Target(i), curFile)
        /\ Qualifies(Target(j), curFile))
       => \E ev \in EmittedForLastChange :
            ev.functionName = Target(i).functionName

(* C3: any two emitted events for one path are at least one debounce
   interval apart. *)
C3_AcceptedAtLeastIntervalApart ==
  \A m, n \in DOMAIN emitted :
    (m < n /\ emitted[m].localPath = emitted[n].localPath)
    => emitted[n].timestamp - emitted[m].timestamp >= Interval(config)

(* C4: while Watching, a callback for a qualifying file name that runs at
   least one interval after lastModified of its path sets lastModified of
   the path to now and emits exactly one event, the one of its target. *)
C4_FreshQualifyingAccepted ==
  [][\A h \in DOMAIN handles :
       (/\ h \in pending /\ h \notin pending'
        /\ isWatching
        /\ Qualifies(handles[h], curFile)
        /\ now - LastMod(lastModified, handles[h].path) >= Interval(config))
       => /\ handles[h].path \in DOMAIN lastModified'
          /\ lastModified'[handles[h].path] = now
          /\ emitted' = Append(emitted,
                          [functionName |-> handles[h].functionName,
                           localPath |-> handles[h].path,
                           changedFile |-> PathJoin(handles[h].path, curFile[1]),
                           handler |-> handles[h].handler,
                           runtime |-> handles[h].runtime,
                           timestamp |-> now])]_vars

C4_Witness ==
  /\ isWatching
  /\ lastOp = [op |-> "callback", result |-> "emitted"]
  /\ Len(emitted) > 0
  /\ emitted[Len(emitted)].timestamp = now
  /\ now - StartTime = Interval(config)

(* C5: after a stopWatching that found the watcher Watching, the watcher
   is Idle, the registry and the debounce map are empty and no native
   watch is open. *)
C5_StopClosesEveryHandle ==
  lastOp = [op |-> "stopWatching", result |-> "stopped"]
  => /\ ~isWatching
     /\ watchers = EmptyMap
     /\ lastModified = EmptyMap
     /\ OpenHandles = {}

(* C6: stopWatching called while not watching closes nothing and leaves
   the watcher's state unchanged; called before any other call, or right
   after a stopWatching that stopped, that state is Idle with an empty
   registry and an empty debounce map. *)
C6_StopIdempotentWhileIdle ==
  [][(calls' = calls + 1 /\ lastOp'.op = "stopWatching" /\ ~isWatching)
     => /\ UNCHANGED <<isWatching, watchers, lastModified, handles, pending,
                       emitted>>
        /\ (calls = 0 \/ lastOp = [op |-> "stopWatching", result |-> "stopped"])
           => (watchers' = EmptyMap /\ lastModified' = EmptyMap)]_vars

C6_Witness ==
  /\ lastOp = [op |-> "stopWatching", result |-> "noop"]
  /\ calls = 3
  /\ \E h \in DOMAIN handles : ~handles[h].open

(* C7: startWatching called while Watching registers no native watch,
   resets no lastModified entry and leaves the registry unchanged. *)
C7_StartIdempotentWhileWatching ==
  [][(calls' = calls + 1 /\ lastOp'.op = "startWatching" /\ isWatching)
     => UNCHANGED <<isWatching, watchers, lastModified, handles, pending,
                    emitted>>]_vars

C7_Witness ==
  /\ lastOp = [op |-> "startWatching", result |-> "noop"]
  /\ isWatching
  /\ watchers # EmptyMap
  /\ \E p \in DOMAIN lastModified : lastModified[p] < now

(* whether a resolved path is an existing directory *)
IsExistingDirectory(localPath) == FsKind(localPath) \in {"dir", "nowatch"}

(* C8, as claimed: the watcher is Watching only if hot reload is enabled
   and at least one configured target resolves to an existing directory. *)
C8_WatchingOnlyWithDirectory ==
  isWatching
  => /\ config.enabled
     /\ \E i \in TargetIndices : IsExistingDirectory(Target(i).localPath)

(* C8, amended: the watcher is Watching only if hot reload is enabled and
   at least one target is configured; and when hot reload is enabled and
   every configured target is missing or not a directory, startWatching
   leaves the watcher Watching with nothing registered. *)
C8_WatchingOnlyWithTargets ==
  /\ isWatching => (config.enabled /\ Len(config.lambdaPaths) > 0)
  /\ (/\ lastOp.op = "startWatching"
      /\ config.enabled
      /\ Len(config.lambdaPaths) > 0
      /\ \A i \in TargetIndices : ~IsExistingDirectory(Target(i).localPath))
     => (isWatching /\ watchers = EmptyMap /\ handles = <<>>)

C8_Witness ==
  /\ isWatching
  /\ lastOp = [op |-> "startWatching", result |-> "started"]
  /\ \A i \in TargetIndices : ~IsExistingDirectory(Target(i).localPath)

(* C9: after a startWatching that ran its loop, a target whose resolved
   localPath is missing or not a directory has no native watch and no
   debounce entry, it is never the reason startWatching raised, and the
   directories listed after it are watched (unless the registration of a
   directory failed before them). *)
C9_SkippedWithoutRaising ==
  (lastOp.op = "startWatching" /\ lastOp.result \in {"started", "raised"})
  => /\ \A i \in TargetIndices :
          FsKind(Target(i).localPath) \in {"missing", "file"}
          => /\ Target(i).localPath \notin DOMAIN watchers
             /\ Target(i).localPath \notin DOMAIN lastModified
             /\ \A h \in DOMAIN handles : handles[h].path # Target(i).localPath
             /\ \A j \in TargetIndices :
                  (/\ j > i
                   /\ FsKind(Target(j).localPath) = "dir"
                   /\ \A k \in 1..j : FsKind(Target(k).localPath) # "nowatch")
                  => /\ Target(j).localPath \in DOMAIN watchers
                     /\ \E h \in OpenHandles :
                          /\ handles[h].path = Target(j).localPath
                          /\ handles[h].functionName = Target(j).functionName
     /\ lastOp.result = "raised"
        => \E k \in TargetIndices : FsKind(Target(k).localPath) = "nowatch"

C9_Witness ==
  /\ lastOp = [op |-> "startWatching", result |-> "started"]
  /\ \E i, j \in TargetIndices :
       /\ i < j
       /\ FsKind(Target(i).localPath) \in {"missing", "file"}
       /\ FsKind(Target(j).localPath) = "dir"
       /\ Target(j).localPath \in DOMAIN watchers

-----------------------------------------------------------------------------
(* Properties of the readiness probe. *)

(* C10: when the k-th health check is the first healthy one, waitForReady
   has returned after exactly k checks and k - 1 sleeps of retryDelayMs:
   no check and no sleep follows the first healthy response. *)
C10_ReturnsAtFirstHealthy ==
  \A k \in 1..Len(probe.outcomes) :
    isHealthy(probe.outcomes[k])
    => /\ probe.pc = "returned"
       /\ Len(probe.outcomes) = k
       /\ k <= probe.maxAttempts
       /\ probe.sleeps = k - 1
       /\ probe.elapsed = (k - 1) * probe.retryDelayMs

C10_Witness ==
  /\ probe.pc = "returned"
  /\ probe.maxAttempts = 3
  /\ probe.retryDelayMs = 10
  /\ Len(probe.outcomes) = 3
  /\ probe.sleeps = 2
  /\ probe.elapsed = 20

(* C11: waitForReady throws the startup timeout only after exactly
   maxAttempts health checks none of which was healthy (each followed by
   its sleep), it does not stop earlier while no check was healthy, and it
   returns only after a healthy check. *)
C11_TimeoutAfterAllAttempts ==
  LET noneHealthy == \A k \in 1..Len(probe.outcomes) :
                       ~isHealthy(probe.outcomes[k])
  IN /\ probe.pc = "threw"
        => /\ noneHealthy
           /\ Len(probe.outcomes) = probe.maxAttempts
           /\ probe.sleeps = probe.maxAttempts
     /\ (probe.pc # "idle" /\ noneHealthy)
        => /\ probe.pc # "returned"
           /\ Len(probe.outcomes) <= probe.maxAttempts
           /\ Len(probe.outcomes) < probe.maxAttempts
              => probe.pc \in {"check", "sleep"}
     /\ probe.pc = "returned"
        => (Len(probe.outcomes) > 0
            /\ isHealthy(probe.outcomes[Len(probe.outcomes)]))

C11_Witness ==
  /\ probe.pc = "threw"
  /\ probe.maxAttempts = 3
  /\ Len(probe.outcomes) = 3
  /\ \A k \in 1..3 : ~isHealthy(probe.outcomes[k])

(* a 2xx response *)
IsSuccessResponse(outcome) ==
  outcome.kind = "response" /\ outcome.status \div 100 = 2

(* C12: isHealthy answers true for a 2xx response and false, without
   raising, for a network error, a non-2xx status and an abort; so
   waitForReady never ends in an exception of a health check, and the only
   failure it ends in is the startup timeout after maxAttempts checks. *)
C12_FailuresAreNotHealthy ==
  /\ \A k \in 1..Len(probe.outcomes) :
       /\ ~isHealthyRaises(probe.outcomes[k])
       /\ isHealthy(probe.outcomes[k]) <=> IsSuccessResponse(probe.outcomes[k])
  /\ probe.pc \in {"idle", "check", "sleep", "returned", "threw"}
  /\ (Len(probe.outcomes) > 0
      /\ ~IsSuccessResponse(probe.outcomes[Len(probe.outcomes)]))
     => probe.pc \in {"check", "sleep", "threw"}
  /\ probe.pc = "threw" => Len(probe.outcomes) = probe.maxAttempts

C12_Witness ==
  /\ probe.pc = "returned"
  /\ Len(probe.outcomes) = 3
  /\ probe.outcomes[1].kind = "network_error"
  /\ probe.outcomes[2].kind = "aborted"
  /\ probe.outcomes[3].status = 299

-----------------------------------------------------------------------------
(* Properties of expandEnvironmentVariables. *)

(* What a string is made of when read once from left to right: a braced
   reference is "${", a name and "}"; a bare reference is "$" and the
   longest name that follows; everything else is text.  A bare reference
   with "{" or "${" right after it is set apart as "adjacent".  A name is
   a letter or "_" followed by letters, digits and "_". *)
RECURSIVE RefSegments(_, _)
RefSegments(s, i) ==
  IF i > Len(s) THEN <<>>
  ELSE LET nameAt(j) == IF j <= Len(s) /\ IsNameStart(s[j])
                          THEN NameEnd(s, j + 1) ELSE 0
           inBraces == IF i + 1 <= Len(s) /\ s[i] = "$" /\ s[i + 1] = "{"
                         THEN nameAt(i + 2) ELSE 0
           bare == IF s[i] = "$" THEN nameAt(i + 1) ELSE 0
       IN IF inBraces > 0 /\ inBraces + 1 <= Len(s) /\ s[inBraces + 1] = "}"
            THEN <<[kind |-> "braced",
                    name |-> SubSeq(s, i + 2, inBraces),
                    text |-> SubSeq(s, i, inBraces + 1)]>>
                 \o RefSegments(s, inBraces + 2)
          ELSE IF bare > 0
            THEN <<[kind |-> IF \/ bare + 1 <= Len(s) /\ s[bare + 1] = "{"
                                \/ /\ bare + 2 <= Len(s)
                                   /\ s[bare + 1] = "$"
                                   /\ s[bare + 2] = "{"
                               THEN "adjacent" ELSE "bare",
                    name |-> SubSeq(s, i + 1, bare),
                    text |-> SubSeq(s, i, bare)]>>
                 \o RefSegments(s, bare + 1)
          ELSE <<[kind |-> "text", name |-> <<>>, text |-> <<s[i]>>]>>
               \o RefSegments(s, i + 1)

(* the references among the segments of a string *)
IsRef(seg) == seg.kind \in {"braced", "bare"}

(* no bare reference of the string has "{" or "${" right after it *)
NoAdjacent(segs) == \A k \in DOMAIN segs : segs[k].kind # "adjacent"

(* the segments with every reference to a name e binds replaced by the
   name's value, and everything else as it is *)
RECURSIVE ReplaceBound(_, _)
ReplaceBound(e, segs) ==
  IF segs = <<>> THEN <<>>
  ELSE (IF IsRef(Head(segs)) /\ Head(segs).name \in DOMAIN e
          THEN e[Head(segs).name] ELSE Head(segs).text)
       \o ReplaceBound(e, Tail(segs))

(* whether t occurs in s *)
Occurs(t, s) ==
  \E i \in 1..(Len(s) - Len(t) + 1) : SubSeq(s, i, i + Len(t) - 1) = t

(* a call of expandEnvironmentVariables has returned *)
Expanded == call.fn = "expandEnvironmentVariables" /\ call.done

(* C13: when every reference of the argument, braced or bare, names a
   variable that is set (and no bare reference has "{" or "${" right after
   it, the case of C15), the result is the argument with each reference
   replaced by its variable's value and all other text as it was. *)
C13_BoundReferencesReplaced ==
  Expanded
  => LET segs == RefSegments(call.arg[1], 1)
     IN (/\ NoAdjacent(segs)
         /\ \E k \in DOMAIN segs : IsRef(segs[k])
         /\ \A k \in DOMAIN segs : IsRef(segs[k]) => segs[k].name \in DOMAIN env)
        => call.result[1] = ReplaceBound(env, segs)

(* C14: a reference to a variable that is not set stays in the result as
   it was written, delimiters included; and an argument whose references
   all name variables that are not set is returned as it is.  (A bare
   reference with "{" or "${" right after it counts as a reference here:
   set or not, no reading has it replaced by anything but its value.) *)
C14_UnboundLeftVerbatim ==
  Expanded
  => LET segs == RefSegments(call.arg[1], 1)
         named(k) == segs[k].kind # "text"
         unbound(k) == named(k) /\ segs[k].name \notin DOMAIN env
     IN /\ \A k \in DOMAIN segs :
             unbound(k) => Occurs(segs[k].text, call.result[1])
        /\ (/\ \E k \in DOMAIN segs : named(k)
            /\ \A k \in DOMAIN segs : named(k) => unbound(k))
           => call.result[1] = call.arg[1]

(* C15: for a variable A that is set, the argument "$A${A}" yields "$A"
   followed by the value of A, whatever that value is. *)
C15_BareBeforeBraceKept ==
  (/\ Expanded
   /\ call.arg[1] = <<"$", "A", "$", "{", "A", "}">>
   /\ <<"A">> \in DOMAIN env)
  => call.result[1] = <<"$", "A">> \o env[<<"A">>]

(* C16: the value put in place of a reference is not read for references
   again: the argument "${A}" or "$A", A being set, yields the value of A
   as it is. *)
C16_ValueNotRescanned ==
  (/\ Expanded
   /\ call.arg[1] \in {<<"$", "{", "A", "}">>, <<"$", "A">>}
   /\ <<"A">> \in DOMAIN env)
  => call.result[1] = env[<<"A">>]

-----------------------------------------------------------------------------
(* Properties of expandEnvironmentVariablesInObject. *)

(* b is a with every string leaf expanded and nothing else changed: the
   same types, the same lengths and order, the same keys *)
RECURSIVE SameButExpanded(_, _, _)
SameButExpanded(e, a, b) ==
  CASE a.kind = "string" ->
         b.kind = "string" /\ b.val = expandEnvironmentVariables(e, a.val)
    [] a.kind = "array" ->
         /\ b.kind = "array"
         /\ Len(b.val) = Len(a.val)
         /\ \A i \in 1..Len(a.val) : SameButExpanded(e, a.val[i], b.val[i])
    [] a.kind = "object" ->
         /\ b.kind = "object"
         /\ DOMAIN b.val = DOMAIN a.val
         /\ \A key \in DOMAIN a.val : SameButExpanded(e, a.val[key], b.val[key])
    [] OTHER -> b = a

(* C17: the result of expandEnvironmentVariablesInObject has the lengths,
   the order and the keys of the argument, every string leaf expanded,
   every other leaf and a null or undefined argument unchanged; and the
   argument is as it was before the call. *)
C17_DeepPreservesStructure ==
  [][(call.fn = "expandEnvironmentVariablesInObject" /\ ~call.done /\ call'.done)
     => /\ call'.arg = call.arg
        /\ SameButExpanded(env, call.arg[1], call'.result[1])]_vars

C17_Witness ==
  /\ call.fn = "expandEnvironmentVariablesInObject"
  /\ call.done
  /\ <<"A">> \in DOMAIN env
  /\ call.arg[1].kind = "array"
  /\ Len(call.arg[1].val) = 2
  /\ call.arg[1].val[1] = JsObject(<<"k">> :> JsArray(<<JsString(<<"x", "$", "{", "A", "}">>)>>))
  /\ call.arg[1].val[2] = JsNull
  /\ call.result[1].val[1].val[<<"k">>].val[1].val = <<"x">> \o env[<<"A">>]
  /\ call.result[1].val[2] = JsNull

-----------------------------------------------------------------------------
(* Properties of getFileExtensionsForRuntime. *)

(* a call of getFileExtensionsForRuntime has returned *)
Resolved == call.fn = "getFileExtensionsForRuntime" /\ call.done

(* the custom mappings of the call, none being no entries *)
Overrides ==
  IF call.arg[1].customMappings = Null THEN EmptyMap
  ELSE call.arg[1].customMappings[1]

(* C18: for a runtime that is a key of the custom mappings the result is
   the custom entry; for a runtime that is a key of the built-in table
   only, the built-in entry, custom mappings given or not; and the call
   leaves the built-in table as it was. *)
C18_OverridesOnTop ==
  [][(call.fn = "getFileExtensionsForRuntime" /\ ~call.done /\ call'.done)
     => LET runtime == call.arg[1].runtime
        IN /\ runtime \in DOMAIN Overrides
              => call'.result[1] = Overrides[runtime]
           /\ (/\ runtime \notin DOMAIN Overrides
               /\ runtime \in DOMAIN DEFAULT_RUNTIME_FILE_EXTENSIONS)
              => call'.result[1] = DEFAULT_RUNTIME_FILE_EXTENSIONS[runtime]
           /\ call'.defaults = call.defaults
           /\ call'.defaults = DEFAULT_RUNTIME_FILE_EXTENSIONS]_vars

C18_Witness ==
  /\ Resolved
  /\ call.arg[1].runtime = <<"p", "y", "t", "h", "o", "n", "3", ".", "8">>
  /\ call.arg[1].runtime \in DOMAIN Overrides
  /\ call.result[1] = <<<<".", "p", "y">>, <<".", "p", "y", "x">>, <<".", "p", "y", "i">>>>
  /\ call.result[1] # DEFAULT_RUNTIME_FILE_EXTENSIONS[call.arg[1].runtime]

(* the text of s before its first ".", all of s when it has none *)
BeforeFirstDot(s) ==
  IF \E i \in DOMAIN s : s[i] = "."
    THEN SubSeq(s, 1, (CHOOSE i \in DOMAIN s :
                         s[i] = "." /\ \A j \in 1..(i - 1) : s[j] # ".") - 1)
  ELSE s

(* s up to its last character that is no decimal digit *)
WithoutTrailingDigits(s) ==
  IF \E i \in DOMAIN s : s[i] \notin Digits
    THEN SubSeq(s, 1, CHOOSE i \in DOMAIN s :
                        s[i] \notin Digits
                        /\ \A j \in (i + 1)..Len(s) : s[j] \in Digits)
  ELSE <<>>

(* the table of the call: the built-in entries with the custom ones on
   top *)
Effective ==
  [k \in DOMAIN DEFAULT_RUNTIME_FILE_EXTENSIONS \cup DOMAIN Overrides
     |-> IF k \in DOMAIN Overrides THEN Overrides[k]
         ELSE DEFAULT_RUNTIME_FILE_EXTENSIONS[k]]

(* C19: the result is the entry of the runtime itself when the table has
   one; else that of the text before the first "." when it has one; else
   that of this text without its trailing digits when it has one; else
   the default list. *)
C19_TierOrder ==
  Resolved
  => LET runtime == call.arg[1].runtime
         base == BeforeFirstDot(runtime)
         family == WithoutTrailingDigits(base)
     IN call.result[1] =
          IF runtime \in DOMAIN Effective THEN Effective[runtime]
          ELSE IF base \in DOMAIN Effective THEN Effective[base]
          ELSE IF family \in DOMAIN Effective THEN Effective[family]
          ELSE DEFAULT_FILE_EXTENSIONS

C19_Witness ==
  /\ Resolved
  /\ call.arg[1].runtime = <<"p", "y", "t", "h", "o", "n", "3", ".", "1", "3">>
  /\ <<"p", "y", "t", "h", "o", "n", "3">> \in DOMAIN Overrides
  /\ call.result[1] = <<<<".", "p", "3">>>>

-----------------------------------------------------------------------------
(* Properties of the targets the watcher builds. *)

(* C20: every target startWatching has built and registered has at least
   one file extension; where the explicit list or the entry of the
   runtime is empty, it has the default list. *)
C20_ExtensionsNeverEmpty ==
  \A h \in DOMAIN handles :
    /\ handles[h].fileExtensions # <<>>
    /\ \A i \in TargetIndices :
         (/\ handles[h].functionName = Target(i).functionName
          /\ \/ config.lambdaPaths[i].fileExtensions = Some(<<>>)
             \/ /\ config.lambdaPaths[i].fileExtensions = Null
                /\ getFileExtensionsForRuntime(config.lambdaPaths[i].runtime,
                                               config.runtimeFileExtensions) = <<>>)
         => handles[h].fileExtensions = DEFAULT_FILE_EXTENSIONS


-----------------------------------------------------------------------------
(* Properties of the watch callback's filter. *)

(* the change reported last carries no file name *)
NoFileName == curFile = Null \/ curFile[1] = <<>>

(* the extension of the file reported last, in lower case, is none of the
   extensions handle h was registered with *)
ExtensionNotWatched(h) ==
  \A i \in 1..Len(handles[h].fileExtensions) :
    handles[h].fileExtensions[i] # ToLowerCase(PathExtname(curFile[1]))

(* C30: a filesystem notification with no file name, or whose lower-cased
   extension is not among the target's fileExtensions, is ignored: the
   callback that handles it emits nothing and leaves lastModified as it
   was for every path. *)
C30_UnqualifiedIgnored ==
  [][\A h \in pending :
       (/\ h \notin pending'
        /\ NoFileName \/ ExtensionNotWatched(h))
       => /\ emitted' = emitted
          /\ lastModified' = lastModified]_vars

(* a callback has run for a change with a file name whose extension its
   target does not watch, at a time the debounce would have let it pass,
   and nothing was emitted for it *)
C30_Witness ==
  /\ lastOp = [op |-> "callback", result |-> "ignored"]
  /\ ~NoFileName
  /\ lastChange.fresh
  /\ pending = {}
  /\ Len(emitted) = lastChange.base


(* the entries of lambdaPaths the native watch h may have been opened
   for: those with its function name and path *)
EntriesOf(h) ==
  {i \in TargetIndices :
     /\ Target(i).functionName = handles[h].functionName
     /\ Target(i).localPath = handles[h].path}

(* C22: a registered target has the explicit list of its entry whenever
   the entry has one, whatever the runtime and the override table say;
   without an explicit list it has what the resolver gives for the runtime
   string as written in the configuration and the configured override
   table. *)
C22_ExplicitListFirst ==
  \A h \in DOMAIN handles : \A i \in EntriesOf(h) :
    LET entry == config.lambdaPaths[i]
    IN handles[h].fileExtensions =
         IF entry.fileExtensions # Null THEN entry.fileExtensions[1]
         ELSE getFileExtensionsForRuntime(entry.runtime,
                                          config.runtimeFileExtensions)

(* two targets are registered: one has its explicit list although the
   override table has an entry for its runtime, the other has the list of
   its runtime as written, which is not the list of the expanded runtime *)
C22_Witness ==
  /\ config.lambdaPaths = <<TargetB, TargetVarRuntime>>
  /\ config.runtimeFileExtensions # Null
  /\ Len(handles) = 2
  /\ handles[1].fileExtensions = <<<<".", "p", "y">>, <<".", "j", "s">>>>
  /\ handles[1].fileExtensions #
       getFileExtensionsForRuntime(TargetB.runtime, config.runtimeFileExtensions)
  /\ handles[2].runtime = <<"$", "N">>
  /\ handles[2].fileExtensions = DEFAULT_FILE_EXTENSIONS
  /\ handles[2].fileExtensions #
       getFileExtensionsForRuntime(
         expandEnvironmentVariables(env, TargetVarRuntime.runtime),
         config.runtimeFileExtensions)

(* the table the resolver looks the runtime of a target up in: the
   built-in entries with the configured ones on top *)
TableKeys ==
  DOMAIN DEFAULT_RUNTIME_FILE_EXTENSIONS
    \cup (IF config.runtimeFileExtensions = Null THEN {}
          ELSE DOMAIN config.runtimeFileExtensions[1])

(* the runtime matches no entry of the table: not as it is, not by the
   text before its first ".", not by that text without trailing digits *)
MatchesNoEntry(runtime) ==
  /\ runtime \notin TableKeys
  /\ BeforeFirstDot(runtime) \notin TableKeys
  /\ WithoutTrailingDigits(BeforeFirstDot(runtime)) \notin TableKeys

(* C23: when hotReloading.defaultFileExtensions is configured, a
   registered target without an explicit list whose runtime matches no
   entry of the table is watched for exactly the configured
   defaultFileExtensions. *)
C23_ConfiguredDefaultUsed ==
  \A h \in DOMAIN handles : \A i \in EntriesOf(h) :
    (/\ config.defaultFileExtensions # Null
     /\ config.lambdaPaths[i].fileExtensions = Null
     /\ MatchesNoEntry(config.lambdaPaths[i].runtime))
    => handles[h].fileExtensions = config.defaultFileExtensions[1]


-----------------------------------------------------------------------------
(* Properties of getPort. *)

(* getPort has been called and has returned or raised *)
PortAnswered == call.fn = "getPort" /\ call.done

(* the GATEWAY_LISTEN of the call, Null when the configuration, the
   environment or the entry is absent *)
ListenOfCall ==
  LET cfg == call.arg[1]
  IN IF cfg = Null THEN Null
     ELSE IF cfg[1].environment = Null THEN Null
     ELSE IF GATEWAY_LISTEN \notin DOMAIN cfg[1].environment[1] THEN Null
     ELSE Some(cfg[1].environment[1][GATEWAY_LISTEN])

(* the text of s after its last ":" *)
AfterLastColon(s) == SubSeq(s, LastIndexOf(s, ":", Len(s)) + 1, Len(s))

(* s is a decimal numeral *)
IsNumeral(s) == s # <<>> /\ \A i \in DOMAIN s : s[i] \in Digits

(* the number a decimal numeral denotes, 1000000 standing for every
   number above it *)
RECURSIVE NumeralValue(_)
NumeralValue(s) ==
  IF s = <<>> THEN 0
  ELSE LET n == 10 * NumeralValue(SubSeq(s, 1, Len(s) - 1)) + HexValue(s[Len(s)])
       IN IF n > 1000000 THEN 1000000 ELSE n

(* C29: getPort returns an integer in 1..65535 or raises the invalid-port
   error; it returns 4566 when the configuration or GATEWAY_LISTEN is
   absent, and the number after the last ":" of GATEWAY_LISTEN when that
   is a number in the range (raising when it is a number outside it). *)
C29_PortInRangeOrError ==
  PortAnswered
  => LET r == call.result[1]
         listen == ListenOfCall
     IN /\ r.raised \/ (r.port # Null /\ r.port[1] \in 1..65535)
        /\ r.raised => r.port = Null
        /\ listen = Null => (~r.raised /\ r.port = Some(4566))
        /\ (listen # Null /\ IsNumeral(AfterLastColon(listen[1])))
           => LET n == NumeralValue(AfterLastColon(listen[1]))
              IN IF n \in 1..65535 THEN ~r.raised /\ r.port = Some(n)
                 ELSE r.raised

(* getPort has returned the port written after the colon, the highest
   port there is *)
C29_Witness ==
  /\ PortAnswered
  /\ ListenOfCall = Some(<<"4", "4", "3", ":", "6", "5", "5", "3", "5">>)
  /\ call.result[1] = [raised |-> FALSE, port |-> Some(65535)]


-----------------------------------------------------------------------------
(* Properties of createHotReloadFunction. *)

(* createHotReloadFunction has been called and has returned or raised *)
Created == call.fn = "createHotReloadFunction" /\ call.done

(* C28: createHotReloadFunction with a localPath that is not absolute
   fails with an error and executes no command; with an absolute path it
   executes exactly one command, and fails exactly when the command
   fails, with the command's error. *)
C28_AbsolutePathOrError ==
  Created
  => LET a == call.arg[1]
         r == call.result[1]
         absolute == a.localPath # <<>> /\ Head(a.localPath) = "/"
     IN IF ~absolute
          THEN r.raised = "path" /\ r.commands = <<>>
        ELSE /\ Len(r.commands) = 1
             /\ r.commands[1].S3Key = a.localPath
             /\ r.raised = (IF a.execFails THEN "exec" ELSE "none")

(* a call with a relative path has failed without a command *)
C28_Witness ==
  /\ Created
  /\ call.arg[1].localPath = <<".", "/", "a">>
  /\ ~call.arg[1].execFails
  /\ call.result[1] = [raised |-> "path", commands |-> <<>>]


-----------------------------------------------------------------------------
(* Properties of the plugin's handler and cleanup. *)

(* the place of a call in the order the handler makes its calls in *)
Rank(entry) ==
  CASE entry.call = "isHealthy" -> 1
    [] entry.call = "hasLocalStackCLI" -> 2
    [] entry.call = "start" -> 3
    [] entry.call = "waitForReady" -> 4
    [] entry.call = "createHotReloadFunction" -> 5
    [] entry.call = "startWatching" -> 6

(* a step of the autoStart path has failed: LocalStack is healthy
   already, the CLI is missing, the start command or startWatching raised,
   waitForReady did not return; a registration that fails is no failure
   of the sequence *)
StepFailed(entry) ==
  CASE entry.call = "isHealthy" -> entry.result = TRUE
    [] entry.call = "hasLocalStackCLI" -> entry.result = FALSE
    [] entry.call = "start" -> entry.result = FALSE
    [] entry.call = "waitForReady" -> entry.result # "returned"
    [] entry.call = "createHotReloadFunction" -> FALSE
    [] entry.call = "startWatching" -> entry.result = FALSE

(* the handler has made the call *)
Called(name) == \E k \in DOMAIN plugin.log : plugin.log[k].call = name

(* C24: with autoStart true or unset the handler makes its calls in the
   order health check, CLI check, start, waitForReady, registrations,
   startWatching, none skipped; a failed step is the last one and the
   handler ends in an error; start is called only after an unhealthy check
   and a found CLI; registrations and startWatching only after
   waitForReady has returned. *)
C24_AutoStartSequence ==
  plugin.cfg.autoStart # Some(FALSE)
  => LET log == plugin.log
     IN /\ log # <<>> => log[1].call = "isHealthy"
        /\ \A k \in 1..(Len(log) - 1) :
             /\ ~StepFailed(log[k])
             /\ \/ Rank(log[k + 1]) = Rank(log[k]) + 1
                \/ Rank(log[k + 1]) = 5 /\ Rank(log[k]) = 5
        /\ (log # <<>> /\ StepFailed(log[Len(log)])) => plugin.pc = "failed"
        /\ Called("start")
           => /\ log[1] = [call |-> "isHealthy", port |-> log[1].port,
                           result |-> FALSE]
              /\ log[2] = [call |-> "hasLocalStackCLI", result |-> TRUE]
        /\ (Called("createHotReloadFunction") \/ Called("startWatching"))
           => log[4] = [call |-> "waitForReady", result |-> "returned"]

(* with autoStart unset the handler has gone through all its steps and the
   watcher is watching *)
C24_Witness ==
  /\ plugin.cfg.autoStart = Null
  /\ plugin.pc = "done"
  /\ Len(plugin.log) = 7
  /\ plugin.log[7] = [call |-> "startWatching", result |-> TRUE]
  /\ isWatching

(* C25: with autoStart false the handler makes no call but one health
   check, never the CLI check and never start; when it runs and the port
   is valid it makes exactly one health check, ends in an error if that
   check finds LocalStack not healthy and ends normally if it finds it
   healthy. *)
C25_AutoStartOffOnlyChecks ==
  plugin.cfg.autoStart = Some(FALSE)
  => LET log == plugin.log
     IN /\ Len(log) <= 1
        /\ \A k \in DOMAIN log : log[k].call = "isHealthy"
        /\ (plugin.pc \in {"done", "failed"} /\ shouldRun(plugin.cfg))
           => IF getPort(Some(plugin.cfg)).raised
                THEN plugin.pc = "failed" /\ log = <<>>
              ELSE /\ Len(log) = 1
                   /\ plugin.pc = (IF log[1].result THEN "done" ELSE "failed")

(* with autoStart false the handler has ended in an error after one
   health check that found LocalStack not healthy *)
C25_Witness ==
  /\ plugin.cfg.autoStart = Some(FALSE)
  /\ plugin.pc = "failed"
  /\ plugin.log = <<[call |-> "isHealthy", port |-> 443, result |-> FALSE]>>

(* a call of createHotReloadFunction *)
IsRegistration(entry) == entry.call = "createHotReloadFunction"

(* the registrations the handler has made, in order *)
Registrations == SelectSeq(plugin.log, IsRegistration)

(* hot-reload setup has begun: waitForReady has returned, there is a
   watcher and at least one lambdaPath is configured *)
SetupBegan ==
  /\ Len(plugin.log) >= 4
  /\ plugin.log[4] = [call |-> "waitForReady", result |-> "returned"]
  /\ HasWatcher
  /\ Len(config.lambdaPaths) > 0

(* C26: once the handler has ended after hot-reload setup began,
   createHotReloadFunction has been called for every configured
   lambdaPath, in order, whatever the earlier calls ended in;
   startWatching has been called after them; and the handler has ended in
   an error only if startWatching raised. *)
C26_RegistrationFailureNotFatal ==
  (/\ plugin.pc \in {"done", "failed"}
   /\ SetupBegan)
  => /\ Len(Registrations) = Len(config.lambdaPaths)
     /\ \A k \in DOMAIN Registrations :
          Registrations[k].functionName =
            expandEnvironmentVariables(env, config.lambdaPaths[k].functionName)
     /\ plugin.log[Len(plugin.log)].call = "startWatching"
     /\ plugin.pc = "failed" => plugin.log[Len(plugin.log)].result = FALSE

(* the first of two registrations failed, the second was made, the
   watcher is watching and the handler has ended normally *)
C26_Witness ==
  /\ plugin.pc = "done"
  /\ Len(Registrations) = 2
  /\ Registrations[1].result = "exec"
  /\ Registrations[2].result = "none"
  /\ plugin.log[Len(plugin.log)] = [call |-> "startWatching", result |-> TRUE]
  /\ isWatching

(* C27: after cleanup, stopWatching was the first call when there is a
   watcher and was not called when there is none; LocalStack was stopped
   exactly when stopOnCleanup is set; cleanup raised only if the stop
   command failed, so never for want of a watcher; and the watcher is
   Idle. *)
C27_CleanupStopsWatcherFirst ==
  plugin.cleaned
  => LET log == plugin.cleanupLog
     IN /\ HasWatcher => (log # <<>> /\ log[1].call = "stopWatching")
        /\ ~HasWatcher => \A k \in DOMAIN log : log[k].call # "stopWatching"
        /\ \A k \in DOMAIN log : log[k].call = "stopWatching" => k = 1
        /\ (\E k \in DOMAIN log : log[k].call = "stop")
           <=> plugin.cfg.stopOnCleanup = Some(TRUE)
        /\ plugin.cleanupRaised => \E k \in DOMAIN log : log[k].call = "stop"
        /\ isWatching = FALSE

(* cleanup has stopped a watcher that was watching, closing its watch, and
   has left LocalStack running *)
C27_Witness ==
  /\ plugin.cleaned
  /\ plugin.cfg.stopOnCleanup = Null
  /\ plugin.cleanupLog = <<[call |-> "stopWatching"]>>
  /\ lastOp = [op |-> "stopWatching", result |-> "stopped"]
  /\ handles # <<>>
  /\ \A h \in DOMAIN handles : ~handles[h].open
  /\ ~plugin.cleanupRaised

(* the path begins at the root *)
StartsAtRoot(path) == path # <<>> /\ Head(path) = "/"

(* the path an entry of lambdaPaths stands for: its localPath with the
   variables expanded, taken as it is when absolute and resolved against
   the project root when not *)
ExpectedPath(lambdaPath) ==
  LET expanded == expandEnvironmentVariables(env, lambdaPath.localPath)
  IN IF StartsAtRoot(expanded) THEN expanded
     ELSE PathResolve(ProjectRoot, expanded)

(* C21: every path a native watch was registered on, and every path
   handed to createHotReloadFunction, is absolute: it is the expanded
   localPath of its entry when that is absolute, and that path resolved
   against the project root when it is not. *)
C21_PathsAbsolute ==
  /\ \A h \in DOMAIN handles :
       /\ StartsAtRoot(handles[h].path)
       /\ \E i \in TargetIndices :
            /\ handles[h].functionName =
                 expandEnvironmentVariables(env, config.lambdaPaths[i].functionName)
            /\ handles[h].path = ExpectedPath(config.lambdaPaths[i])
  /\ \A k \in DOMAIN Registrations :
       /\ StartsAtRoot(Registrations[k].localPath)
       /\ Registrations[k].localPath = ExpectedPath(config.lambdaPaths[k])

(* a target written relative to the project root has been registered and
   is watched under its absolute path *)
C21_Witness ==
  /\ config.lambdaPaths = <<TargetA, TargetB>>
  /\ ~StartsAtRoot(expandEnvironmentVariables(env, TargetB.localPath))
  /\ Len(Registrations) = 2
  /\ Registrations[2].localPath = <<"/", "r", "/", "a">>
  /\ Len(handles) = 2
  /\ handles[2].path = <<"/", "r", "/", "a">>
  /\ handles[2].functionName = <<"B">>


-----------------------------------------------------------------------------
(* Properties of the debounce decision and of the events. *)

(* the paths that have a debounce entry before or after a step *)
DebouncedPaths == DOMAIN lastModified \cup DOMAIN lastModified'

(* C31: the debounce decision of a callback is one step: a callback that
   finds now less than one interval after lastModified of its path is not
   accepted; an accepted callback writes now, a later time than the one
   it read, in the same step, so no second callback can be accepted
   against the value it read; and a callback for one path leaves
   lastModified of every other path as it was. *)
C31_DebounceDecisionAtomic ==
  [][\A h \in pending :
       h \notin pending'
       => LET p == handles[h].path
          IN /\ now - LastMod(lastModified, p) < Interval(config)
                => (emitted' = emitted /\ lastModified' = lastModified)
             /\ emitted' # emitted
                => /\ Len(emitted') = Len(emitted) + 1
                   /\ p \in DOMAIN lastModified'
                   /\ lastModified'[p] = now
                   /\ lastModified'[p] > LastMod(lastModified, p)
             /\ \A q \in DebouncedPaths \ {p} :
                  /\ q \in DOMAIN lastModified
                  /\ q \in DOMAIN lastModified'
                  /\ lastModified'[q] = lastModified[q]]_vars

(* two callbacks for one path have run for one change, both for a file
   their targets watch: the first was accepted, the second, reading the
   time the first wrote, was not *)
C31_Witness ==
  /\ lastOp = [op |-> "callback", result |-> "debounced"]
  /\ pending = {}
  /\ lastChange.fresh
  /\ Len(emitted) = lastChange.base + 1
  /\ emitted[Len(emitted)].timestamp = now
  /\ lastModified[lastChange.path] = now
  /\ Cardinality({h \in OpenHandles : handles[h].path = lastChange.path}) = 2

(* C32: every emitted event carries the values of one configured target
   whose filter accepts the changed file: its expanded functionName and
   handler, its resolved absolute localPath, its runtime as configured,
   and as changedFile the localPath joined with a reported file name
   whose lower-cased extension is one of the target's. *)
C32_EventCarriesTargetMetadata ==
  \A n \in DOMAIN emitted :
    \E i \in TargetIndices :
      LET entry == config.lambdaPaths[i]
          ev == emitted[n]
      IN /\ ev.functionName = expandEnvironmentVariables(env, entry.functionName)
         /\ ev.handler = expandEnvironmentVariables(env, entry.handler)
         /\ ev.localPath = ExpectedPath(entry)
         /\ StartsAtRoot(ev.localPath)
         /\ ev.runtime = entry.runtime
         /\ \E f \in FileNames \ {Null} :
              /\ ev.changedFile = PathJoin(ev.localPath, f[1])
              /\ \E k \in 1..Len(Target(i).fileExtensions) :
                   Target(i).fileExtensions[k] = ToLowerCase(PathExtname(f[1]))

(* the second of two targets on one directory, written with references
   and a relative path, has emitted an event for a file in a subdirectory
   that the first target does not watch *)
C32_Witness ==
  /\ config.lambdaPaths = <<TargetA, TargetB>>
  /\ emitted # <<>>
  /\ emitted[Len(emitted)].functionName = <<"B">>
  /\ emitted[Len(emitted)].handler = <<"h", ".", "B">>
  /\ emitted[Len(emitted)].localPath = <<"/", "r", "/", "a">>
  /\ emitted[Len(emitted)].runtime = TargetB.runtime
  /\ emitted[Len(emitted)].changedFile =
       <<"/", "r", "/", "a", "/", "s", "/", "y", ".", "j", "s">>


(* C35: no event is emitted while the watcher is Idle: a callback that
   runs after stopWatching has returned, and before startWatching has set
   the watcher Watching again, emits nothing. *)
C35_NoEmissionWhileIdle ==
  [][emitted' # emitted => isWatching]_vars

(* C37: a stopWatching that follows a startWatching which raised partway
   through its targets leaves no native watch open. *)
C37_StopAfterFailedStartClosesHandles ==
  [][(/\ lastOp = [op |-> "startWatching", result |-> "raised"]
      /\ calls' = calls + 1
      /\ lastOp'.op = "stopWatching")
     => \A h \in DOMAIN handles' : ~handles'[h].open]_vars


(* the handler has made a call that sets up hot reloading *)
HotReloadCalled ==
  \E k \in DOMAIN plugin.log :
    plugin.log[k].call \in {"createHotReloadFunction", "startWatching"}

(* C39: the handler calls createHotReloadFunction and startWatching only
   in the start sequence, after waitForReady has returned: with autoStart
   false it calls neither and the watcher stays Idle with no native watch,
   even with hot reloading enabled, lambdaPaths configured and LocalStack
   healthy; with no lambdaPaths it calls neither on either path. *)
C39_HotReloadOnlyInStartSequence ==
  /\ plugin.cfg.autoStart = Some(FALSE)
     => (~HotReloadCalled /\ ~isWatching /\ handles = <<>>)
  /\ Len(config.lambdaPaths) = 0
     => (~HotReloadCalled /\ ~isWatching /\ handles = <<>>)
  /\ HotReloadCalled
     => /\ plugin.cfg.autoStart # Some(FALSE)
        /\ Len(plugin.log) > 4
        /\ plugin.log[3].call = "start"
        /\ plugin.log[4] = [call |-> "waitForReady", result |-> "returned"]
        /\ \A k \in 1..4 :
             plugin.log[k].call \notin {"createHotReloadFunction", "startWatching"}

(* with autoStart false, hot reloading enabled and two lambdaPaths, the
   handler has ended normally after finding LocalStack healthy, and the
   watcher is Idle *)
C39_Witness ==
  /\ plugin.cfg.autoStart = Some(FALSE)
  /\ plugin.pc = "done"
  /\ plugin.log = <<[call |-> "isHealthy", port |-> 443, result |-> TRUE]>>
  /\ config.enabled
  /\ Len(config.lambdaPaths) = 2
  /\ ~isWatching


(* lastModified of path p is written in a step *)
Stamped(p) ==
  /\ p \in DOMAIN lastModified'
  /\ p \in DOMAIN lastModified => lastModified'[p] # lastModified[p]

(* C36: the debounce window is anchored at the last accepted change, not
   at the last change: outside startWatching and stopWatching, lastModified
   of a path is written only by a step that emits an event for the path,
   and with the time of that event; a callback for a qualifying file that
   runs inside the window changes nothing; and one that runs at least one
   interval after lastModified of its path is accepted, however recent the
   last suppressed change is. *)
C36_WindowAnchoredAtLastAccepted ==
  [][/\ \A p \in DOMAIN lastModified' :
          (Stamped(p) /\ calls' = calls)
          => /\ Len(emitted') = Len(emitted) + 1
             /\ emitted'[Len(emitted')].localPath = p
             /\ emitted'[Len(emitted')].timestamp = lastModified'[p]
     /\ \A h \in pending :
          (h \notin pending' /\ Qualifies(handles[h], curFile))
          => LET p == handles[h].path
             IN IF now - LastMod(lastModified, p) < Interval(config)
                  THEN lastModified' = lastModified /\ emitted' = emitted
                ELSE /\ Len(emitted') = Len(emitted) + 1
                     /\ emitted'[Len(emitted')].localPath = p
                     /\ emitted'[Len(emitted')].timestamp = now
                     /\ p \in DOMAIN lastModified'
                     /\ lastModified'[p] = now]_vars

(* a change of a watched file has just been suppressed one millisecond
   before the window closes: lastModified of its path still holds the time
   the window opened, so a change one millisecond later is accepted *)
C36_Witness ==
  /\ isWatching
  /\ lastOp = [op |-> "callback", result |-> "debounced"]
  /\ pending = {}
  /\ lastChange.path \in DOMAIN lastModified
  /\ lastChange.at = now
  /\ now - lastModified[lastChange.path] = Interval(config) - 1


(* C33: registering a path sets lastModified of the path to the time of
   the registration, and so no event is emitted less than one interval
   after the path was registered; no path is registered before the watcher
   is constructed, at StartTime, so no event is earlier than one interval
   after that. *)
C33_FirstNotificationAfterInterval ==
  /\ [][\A h \in DOMAIN handles' \ DOMAIN handles :
          /\ handles'[h].path \in DOMAIN lastModified'
          /\ lastModified'[handles'[h].path] = now]_vars
  /\ [](\A n \in DOMAIN emitted :
          emitted[n].timestamp - StartTime >= Interval(config))

(* waitForReady is in its loop *)
ProbeRunning == probe.pc \in {"check", "sleep"}

(* waitForReady has returned, or thrown the startup timeout *)
ProbeEnded == probe.pc \in {"returned", "threw"}

(* C34: when every health check completes and every sleep ends, a call of
   waitForReady ends, in a return or in the startup timeout; it never makes
   more than maxAttempts health checks or sleeps; it returns only after a
   healthy check, throws only after maxAttempts unhealthy ones, and once
   ended does nothing more. *)
C34_WaitForReadyTerminates ==
  /\ ProbeRunning ~> ProbeEnded
  /\ [](/\ Len(probe.outcomes) <= probe.maxAttempts
        /\ probe.sleeps <= probe.maxAttempts
        /\ probe.pc \in {"idle", "check", "sleep", "returned", "threw"}
        /\ probe.pc = "returned"
           => /\ probe.outcomes # <<>>
              /\ probe.outcomes[Len(probe.outcomes)].kind = "response"
              /\ probe.outcomes[Len(probe.outcomes)].status \in 200..299
        /\ probe.pc = "threw"
           => /\ Len(probe.outcomes) = probe.maxAttempts
              /\ probe.sleeps = probe.maxAttempts)
  /\ [][ProbeEnded => probe' = probe]_vars

(* every health check of a call was ended by the abort of its timeout, and
   the call has thrown the startup timeout after the last one allowed *)
C34_Witness ==
  /\ probe.pc = "threw"
  /\ probe.maxAttempts = MaxAttempts
  /\ Len(probe.outcomes) = MaxAttempts
  /\ \A k \in DOMAIN probe.outcomes : probe.outcomes[k].kind = "aborted"
  /\ probe.sleeps = MaxAttempts
  /\ probe.elapsed = MaxAttempts * 2000


(* C38: the interval handleFileChange uses is the configured watchInterval
   when that is a positive number and 700 ms otherwise, so it is always
   positive and a change arriving no later than the last accepted one of
   its path is never accepted. *)
C38_IntervalPositiveOrDefault ==
  call.done
  => LET w == call.arg[1].watchInterval
         r == call.result[1]
     IN /\ r.interval = (IF w # Null /\ w[1] > 0 THEN w[1] ELSE 700)
        /\ r.interval > 0
        /\ call.arg[1].elapsed = 0 => ~r.accepted

=============================================================================
